---- MODULE Spec2Model ----
(***************************************************************************)
(* Chiba Cable guide: the display instance (selection, player, preload     *)
(* cache) and the remote instance (dial buffer), modelled from             *)
(* apps/guide/src/App.tsx, hooks/usePreloadManager.ts, lib/guide.ts and    *)
(* lib/media.ts.                                                           *)
(*                                                                         *)
(* Strings that are parsed (channel numbers, dial values) are sequences of *)
(* character codes: 0..9 are the digits, CharX a letter, CharSp a blank.   *)
(* Row and column indexes are 0-based as in the source; TLA+ sequences are *)
(* 1-based, so channels[row] of the source is channels[row + 1] here.      *)
(***************************************************************************)
EXTENDS Integers, Sequences, FiniteSets, TLC

\* ------------------------------------------------------------------------
\* Bounds of the model
\* ------------------------------------------------------------------------
MaxClockTicks == 2
MaxElements == 3
\* The most visible channels and the most slots of a snapshot of the model.
MaxRows == 4
MaxSlots == 2
MaxDialEvents == 5

\* ------------------------------------------------------------------------
\* Program constants
\* ------------------------------------------------------------------------
PRELOAD_CACHE_TTL_MS == 60000
PRELOAD_CACHE_LIMIT == 2
DEBUG_CHANNEL_ID == "debug"
DEBUG_CHANNEL_NUMBER == <<0, 2, 6>>
GODMODE_CHANNEL_ID == "godmode"
GODMODE_CHANNEL_NUMBER == <<0, 6, 7>>
DialCommitMs == 700

CharX == 10
CharSp == 11
NULL == -1
NaN == -2
NoUrl == ""

SetMin(S) == CHOOSE x \in S : \A y \in S : x <= y
SetMax(S) == CHOOSE x \in S : \A y \in S : x >= y

clamp(value, min, max) ==
  LET hi == IF value >= min THEN value ELSE min
  IN IF hi <= max THEN hi ELSE max

\* ------------------------------------------------------------------------
\* lib/guide.ts : channel numbers
\* ------------------------------------------------------------------------
trim(s) ==
  LET keep == {i \in 1..Len(s) : s[i] # CharSp}
  IN IF keep = {} THEN <<>> ELSE SubSeq(s, SetMin(keep), SetMax(keep))

RECURSIVE DecimalValue(_)
DecimalValue(s) ==
  IF s = <<>> THEN 0
  ELSE 10 * DecimalValue(SubSeq(s, 1, Len(s) - 1)) + s[Len(s)]

\* Number.parseInt(s, 10): skips leading blanks, reads the longest prefix of
\* digits, NaN when that prefix is empty.
parseInt(s) ==
  LET nonBlank == {i \in 1..Len(s) : s[i] # CharSp}
      from == IF nonBlank = {} THEN Len(s) + 1 ELSE SetMin(nonBlank)
      r == SubSeq(s, from, Len(s))
      n == SetMax({0} \cup {k \in 1..Len(r) : \A i \in 1..k : r[i] \in 0..9})
  IN IF n = 0 THEN NaN ELSE DecimalValue(SubSeq(r, 1, n))

normalizeChannelNumber(value) ==
  LET trimmed == trim(value)
  IN IF trimmed = <<>> THEN NULL
     ELSE LET number == parseInt(trimmed)
          IN IF number = NaN THEN NULL ELSE number

isHiddenChannel(channel) ==
  LET number == normalizeChannelNumber(channel.number)
  IN \/ channel.id = GODMODE_CHANNEL_ID
     \/ channel.id = DEBUG_CHANNEL_ID
     \/ number = normalizeChannelNumber(GODMODE_CHANNEL_NUMBER)
     \/ number = normalizeChannelNumber(DEBUG_CHANNEL_NUMBER)

\* Array.prototype.findIndex / find over a 1-based sequence: 0-based index of
\* the first element satisfying P, -1 when there is none.
FindIndex(seq, P(_)) ==
  LET hits == {i \in 1..Len(seq) : P(seq[i])}
  IN IF hits = {} THEN -1 ELSE SetMin(hits) - 1

SystemSchedule(slotCountIn) ==
  LET slotCount == IF slotCountIn >= 1 THEN slotCountIn ELSE 1
  IN << [start |-> 0, end |-> slotCount - 1, url |-> NoUrl] >>

ensureDebugChannel(indexData) ==
  LET present == \E i \in 1..Len(indexData.channels) :
                    \/ indexData.channels[i].id = DEBUG_CHANNEL_ID
                    \/ indexData.channels[i].number = DEBUG_CHANNEL_NUMBER
      debugChannel == [id |-> DEBUG_CHANNEL_ID, number |-> DEBUG_CHANNEL_NUMBER,
                       schedule |-> SystemSchedule(indexData.slotCount)]
      After26(channel) ==
        LET number == normalizeChannelNumber(channel.number)
        IN number # NULL /\ number > 26
      insertAt == FindIndex(indexData.channels, After26)
      channels == indexData.channels
  IN IF present THEN indexData
     ELSE IF insertAt = -1
          THEN [indexData EXCEPT !.channels = Append(channels, debugChannel)]
          ELSE [indexData EXCEPT !.channels =
                  SubSeq(channels, 1, insertAt) \o <<debugChannel>>
                  \o SubSeq(channels, insertAt + 1, Len(channels))]

ensureSystemChannels(indexData) ==
  LET debugged == ensureDebugChannel(indexData)
      channels == debugged.channels
      present == \E i \in 1..Len(channels) :
                    \/ channels[i].id = GODMODE_CHANNEL_ID
                    \/ channels[i].number = GODMODE_CHANNEL_NUMBER
      godChannel == [id |-> GODMODE_CHANNEL_ID, number |-> GODMODE_CHANNEL_NUMBER,
                     schedule |-> SystemSchedule(debugged.slotCount)]
  IN IF present THEN debugged
     ELSE [debugged EXCEPT !.channels = <<godChannel>> \o channels]

\* ------------------------------------------------------------------------
\* lib/media.ts
\* ------------------------------------------------------------------------
\* The URLs of the model and the part of each that the source parses: its
\* file extension (getMediaKind) and its appId query parameter
\* (getAppIdFromUrl).
UrlExtension(url) ==
  CASE url = "a.png" -> "png"
    [] url = "b.png" -> "png"
    [] url = "c.mp4" -> "mp4"
    [] url = "d.mp3" -> "mp3"
    [] OTHER -> ""

getMediaKind(url) ==
  LET cleaned == UrlExtension(url)
  IN IF cleaned \in {"png", "jpg", "jpeg", "gif", "webp", "avif"} THEN "image"
     ELSE IF cleaned \in {"mp4", "webm", "ogg", "m4v", "mov"} THEN "video"
     ELSE IF cleaned \in {"mp3", "wav", "aac", "m4a", "flac", "oga"} THEN "audio"
     ELSE "iframe"

NoApp == "null"

getAppIdFromUrl(url) ==
  IF url = NoUrl THEN NoApp
  ELSE IF url = "/art?appId=art" THEN "art"
  ELSE NoApp

\* ------------------------------------------------------------------------
\* Guide index snapshots
\* ------------------------------------------------------------------------
Slot(start, end, url) == [start |-> start, end |-> end, url |-> url]

Channel(id, number, schedule) ==
  [id |-> id, number |-> number, schedule |-> schedule]

\* A snapshot as the server publishes it (channels sorted by number, each
\* schedule tiling 0..slotCount-1), before ensureSystemChannels.  Channel ids
\* and numbers are whatever the channel files say: one file uses the id of
\* the debug channel, one the number of god mode, one has no number, one a
\* number that is no number.
IndexMixed ==
  [generatedAt |-> 1, slotCount |-> 2, channels |-> <<
     Channel("one", <<0, 0, 1>>, <<Slot(0, 0, "a.png"), Slot(1, 1, NoUrl)>>),
     Channel("debug", <<9>>, <<Slot(0, 1, "b.png")>>),
     Channel("dup", <<0, 9>>, <<Slot(0, 1, "/art?appId=art")>>),
     Channel("sixseven", <<6, 7>>, <<Slot(0, 1, "c.mp4")>>),
     Channel("blank", <<>>, <<Slot(0, 0, "d.mp3"), Slot(1, 1, "c.mp4")>>),
     Channel("letters", <<CharX>>, <<Slot(0, 1, NoUrl)>>) >>]

RawIndexes == {IndexMixed}

\* A snapshot of one slot with three playable channels, for the preload
\* cache: an image, an app in a frame, a video.
IndexMedia ==
  [generatedAt |-> 1, slotCount |-> 1, channels |-> <<
     Channel("one", <<1>>, <<Slot(0, 0, "a.png")>>),
     Channel("two", <<2>>, <<Slot(0, 0, "/art?appId=art")>>),
     Channel("three", <<3>>, <<Slot(0, 0, "c.mp4")>>) >>]

\* ------------------------------------------------------------------------
\* Messages on the socket
\* ------------------------------------------------------------------------
Message(type) ==
  [type |-> type, channelId |-> "", number |-> <<>>, url |-> NoUrl,
   value |-> <<>>, committed |-> FALSE, appId |-> NoApp, dir |-> "",
   tx |-> FALSE]

NowMessage(channelId, number, url) ==
  [Message("now") EXCEPT !.channelId = channelId, !.number = number, !.url = url]

DialMessage(value, committed) ==
  [Message("dial") EXCEPT !.value = value, !.committed = committed]

TuneMessage(number) == [Message("tune") EXCEPT !.number = number]

AppMessage(appId) == [Message("app") EXCEPT !.appId = appId]

\* ------------------------------------------------------------------------
\* State
\* ------------------------------------------------------------------------
\* The diagnostics overlay flag showDebug and the other presentation state
\* (HUD, QR, scroll offsets) are written by the handlers but read by no
\* handler or effect modelled here; they are left out.
VARIABLES
  \* display instance (viewMode = "guide"), App.tsx
  indexData, channels, currentSlotIndex, returnRowParam,
  selectedRow, selectedCol, playerOpen, playerUrl, playerChannelIndex,
  lastCurrentSlotRef, lastAppMessageRef,
  displaySocketOpen, sent, lastAppSent, lastOp,
  \* remote instance (viewMode = "remote"), App.tsx
  dialBuffer, dialTimeoutRef, remoteGodmodeOpen, remoteSocketOpen,
  remoteSent, dialEvents, staleDialTimers, dialUpdates,
  \* usePreloadManager of the display, and the clock (Date.now())
  PRELOAD_MODE, nowTs, preloadCache, previewAttachedRef, preloadUrl,
  preloadTimerRef, neighborTimer, elementCount, pendingLoads, parentElement,
  elementSrc,
  stalePreloadTimers,
  \* the last call of getCurrentSlotIndex and of the two buildSchedule, with
  \* their arguments and results
  libCall,
  \* useRemoteSocket of the display and of the remote, their WebSockets, the
  \* channel the display shows and the one the remote believes it shows, and a
  \* record of what was sent, dropped and relayed
  hook, sockets, liveChannel, remoteNowChannel, wire, netOp,
  \* the auto-scroll pacer of the guide view, App.tsx: the offset, the refs of
  \* the pause and of the end-of-list hold, the paused flag and the time of
  \* the last run of the interval that refreshes it, and the number of inputs
  \* handled while the pacer runs
  scrollOffset, pauseUntilRef, autoHoldUntilRef, autoResetPendingRef,
  isPaused, prevPausedRef, lastFrameRef, pausedCheckedAt, pacerInputs,
  \* the snapshot of the server (let guideIndex), the fetches of /api/index
  \* under way, the poll interval of the display, and the index messages the
  \* server has broadcast and the display has not handled yet
  guideIndex, fetches, pollInterval, indexNotices

displayVars ==
  << indexData, channels, currentSlotIndex, returnRowParam, selectedRow,
     selectedCol,
     playerOpen, playerUrl, playerChannelIndex, lastCurrentSlotRef,
     lastAppMessageRef, displaySocketOpen, sent, lastAppSent, lastOp >>

remoteVars ==
  << dialBuffer, dialTimeoutRef, remoteGodmodeOpen, remoteSocketOpen,
     remoteSent, dialEvents, staleDialTimers, dialUpdates >>

preloadVars ==
  << PRELOAD_MODE, nowTs, preloadCache, previewAttachedRef, preloadUrl,
     preloadTimerRef, neighborTimer, elementCount, pendingLoads,
     parentElement, elementSrc, stalePreloadTimers >>

libVars == << libCall >>

netVars == << hook, sockets, liveChannel, remoteNowChannel, wire, netOp >>

pacerVars ==
  << scrollOffset, pauseUntilRef, autoHoldUntilRef, autoResetPendingRef,
     isPaused, prevPausedRef, lastFrameRef, pausedCheckedAt, pacerInputs >>

pollVars == << guideIndex, fetches, pollInterval, indexNotices >>

vars ==
  << displayVars, remoteVars, preloadVars, libVars, netVars, pacerVars,
     pollVars >>

\* The display's state as one record: handlers and effects are functions from
\* the rendered state (what their closures captured) to the next state.
DisplayState ==
  [indexData |-> indexData, channels |-> channels,
   currentSlotIndex |-> currentSlotIndex,
   returnRowParam |-> returnRowParam,
   selectedRow |-> selectedRow, selectedCol |-> selectedCol,
   playerOpen |-> playerOpen, playerUrl |-> playerUrl,
   playerChannelIndex |-> playerChannelIndex,
   lastCurrentSlotRef |-> lastCurrentSlotRef,
   lastAppMessageRef |-> lastAppMessageRef,
   displaySocketOpen |-> displaySocketOpen, sent |-> <<>>]

\* The appId of the last app message that went out on an open socket: that
\* of the messages of this step if there is one, else the one before.
LastAppOf(messages, before) ==
  LET out == SelectSeq(messages, LAMBDA m : m.type = "app" /\ m.tx)
  IN IF out = <<>> THEN before ELSE out[Len(out)].appId

SetDisplayState(s) ==
  /\ indexData' = s.indexData
  /\ channels' = s.channels
  /\ currentSlotIndex' = s.currentSlotIndex
  /\ returnRowParam' = s.returnRowParam
  /\ selectedRow' = s.selectedRow
  /\ selectedCol' = s.selectedCol
  /\ playerOpen' = s.playerOpen
  /\ playerUrl' = s.playerUrl
  /\ playerChannelIndex' = s.playerChannelIndex
  /\ lastCurrentSlotRef' = s.lastCurrentSlotRef
  /\ lastAppMessageRef' = s.lastAppMessageRef
  /\ displaySocketOpen' = s.displaySocketOpen
  /\ sent' = s.sent
  /\ lastAppSent' = LastAppOf(s.sent, lastAppSent)

\* ------------------------------------------------------------------------
\* App.tsx : derived values of a render
\* ------------------------------------------------------------------------
NotHidden(channel) == ~isHiddenChannel(channel)

allChannelsOf(s) == s.indexData.channels

\* const channels = useMemo(() => allChannels.filter(...), [allChannels])
VisibleChannels(allChannels) == SelectSeq(allChannels, NotHidden)

channelsOf(s) == s.channels

slotCountOf(s) == s.indexData.slotCount

NoProgram == [start |-> -1, end |-> -1, url |-> NoUrl]

NoChannel == [id |-> "", number |-> <<>>, schedule |-> <<>>]

\* schedule.find(slot => col >= slot.start && col <= slot.end) ?? schedule[0]
ProgramAt(channel, col) ==
  LET covering == {i \in 1..Len(channel.schedule) :
                     col >= channel.schedule[i].start
                     /\ col <= channel.schedule[i].end}
  IN IF covering # {} THEN channel.schedule[SetMin(covering)]
     ELSE IF Len(channel.schedule) > 0 THEN channel.schedule[1]
     ELSE NoProgram

selectedChannelOf(s) ==
  IF s.selectedRow >= 0 /\ s.selectedRow < Len(channelsOf(s))
  THEN channelsOf(s)[s.selectedRow + 1]
  ELSE NoChannel

selectedProgramOf(s) ==
  IF selectedChannelOf(s) = NoChannel THEN NoProgram
  ELSE ProgramAt(selectedChannelOf(s), s.selectedCol)

selectedProgramUrlOf(s) == selectedProgramOf(s).url

getProgramForChannel(s, channel) ==
  IF channel = NoChannel THEN NoProgram
  ELSE ProgramAt(channel, s.currentSlotIndex)

\* useRemoteSocket.send on the display's socket: written to the wire only
\* when the socket is OPEN (tx), otherwise dropped.
send(r, s, message) ==
  [s EXCEPT !.sent = Append(@, [message EXCEPT !.tx = r.displaySocketOpen])]

\* ------------------------------------------------------------------------
\* App.tsx : handlers of the display.  r is the rendered state the handler's
\* closure captured, s the state its setState calls build up.
\* ------------------------------------------------------------------------
openProgram(r, s, program, channel) ==
  IF program.url = NoUrl THEN s
  ELSE
    LET channelIndex ==
          FindIndex(channelsOf(r), LAMBDA item : item.id = channel.id)
        s1 == [s EXCEPT
                 !.playerOpen = TRUE,
                 !.playerUrl = IF r.playerUrl # program.url
                               THEN program.url ELSE @,
                 !.playerChannelIndex = IF channelIndex >= 0
                                        THEN channelIndex ELSE r.selectedRow]
    IN send(r, s1, NowMessage(channel.id, channel.number, program.url))

\* Stepping that stops at the ends of the list instead of wrapping.
NextRowClamped(activeRow, delta, length) ==
  clamp(activeRow + delta, 0, length - 1)

NextRow(activeRow, delta, length) == (activeRow + delta + length) % length

\* A step onto a channel with nothing playable that closes the player
\* without announcing the channel.
StandByQuietly(r, s, channel, program) == [s EXCEPT !.playerOpen = FALSE]

\* else { setPlayerOpen(false); send now }
StandBy(r, s, channel, program) ==
  send(r, [s EXCEPT !.playerOpen = FALSE],
       NowMessage(channel.id, channel.number, program.url))

handleChannelChange(r, s, dir) ==
  LET visible == channelsOf(r) IN
  IF Len(visible) = 0 THEN s
  ELSE
    LET delta == IF dir = "up" THEN -1 ELSE 1
        nextRow == NextRow(r.selectedRow, delta, Len(visible))
        nextChannel == visible[nextRow + 1]
        s1 == [s EXCEPT !.selectedRow = nextRow,
                        !.selectedCol = r.currentSlotIndex]
        s2 == IF nextChannel.number # <<>>
              THEN send(r, s1, DialMessage(nextChannel.number, TRUE))
              ELSE s1
        nextProgram == getProgramForChannel(r, nextChannel)
    IN IF nextProgram.url # NoUrl
       THEN openProgram(r, s2, nextProgram, nextChannel)
       ELSE StandBy(r, s2, nextChannel, nextProgram)

\* The target looked up among the visible channels only.
TuneTargetVisibleOnly(r, targetNumber) ==
  LET Matches(channel) ==
        LET channelNumber == normalizeChannelNumber(channel.number)
        IN channelNumber # NULL /\ channelNumber = targetNumber
      at == FindIndex(channelsOf(r), Matches)
  IN IF at = -1 THEN NoChannel ELSE channelsOf(r)[at + 1]

\* allChannels.find(channel => number of channel === targetNumber)
TuneTarget(r, targetNumber) ==
  LET Matches(channel) ==
        LET channelNumber == normalizeChannelNumber(channel.number)
        IN channelNumber # NULL /\ channelNumber = targetNumber
      at == FindIndex(allChannelsOf(r), Matches)
  IN IF at = -1 THEN NoChannel ELSE allChannelsOf(r)[at + 1]

\* The built-in pseudo-channel a target number is reserved for, NoChannel
\* when it is not reserved.
ReservedChannelGodmodeOnly(value, targetNumber) ==
  IF targetNumber = normalizeChannelNumber(GODMODE_CHANNEL_NUMBER)
  THEN [id |-> GODMODE_CHANNEL_ID, number |-> GODMODE_CHANNEL_NUMBER,
        schedule |-> <<>>]
  ELSE NoChannel

ReservedChannel(value, targetNumber) ==
  IF targetNumber = normalizeChannelNumber(GODMODE_CHANNEL_NUMBER)
  THEN [id |-> GODMODE_CHANNEL_ID, number |-> GODMODE_CHANNEL_NUMBER,
        schedule |-> <<>>]
  ELSE IF targetNumber = normalizeChannelNumber(DEBUG_CHANNEL_NUMBER)
  THEN [id |-> DEBUG_CHANNEL_ID, number |-> DEBUG_CHANNEL_NUMBER,
        schedule |-> <<>>]
  ELSE NoChannel

\* A tune that resolves no channel closes the player and reports nothing
\* playing, instead of returning.
TuneMissClosesPlayer(r, s) ==
  send(r, [s EXCEPT !.playerOpen = FALSE], NowMessage("", <<>>, NoUrl))

\* if (!targetChannel) return;
TuneMiss(r, s) == s

handleTuneToNumber(r, s, value) ==
  LET targetNumber == normalizeChannelNumber(value) IN
  IF targetNumber = NULL THEN s
  ELSE
    LET reserved == ReservedChannel(value, targetNumber) IN
    IF reserved # NoChannel
    THEN send(r, [s EXCEPT !.playerOpen = FALSE],
              NowMessage(reserved.id, reserved.number, NoUrl))
    ELSE
      LET targetChannel == TuneTarget(r, targetNumber) IN
      IF targetChannel = NoChannel THEN TuneMiss(r, s)
      ELSE
        LET visibleIndex ==
              FindIndex(channelsOf(r),
                        LAMBDA channel : channel.id = targetChannel.id)
            s1 == IF visibleIndex >= 0
                  THEN [s EXCEPT !.selectedRow = visibleIndex,
                                 !.selectedCol = r.currentSlotIndex]
                  ELSE s
            program == getProgramForChannel(r, targetChannel)
        IN IF program.url # NoUrl
           THEN openProgram(r, s1, program, targetChannel)
           ELSE send(r, [s1 EXCEPT !.playerOpen = FALSE],
                     NowMessage(targetChannel.id, targetChannel.number,
                                program.url))

handleGodmodePick(r, s, program, channel) ==
  LET channelIndex ==
        FindIndex(channelsOf(r), LAMBDA item : item.id = channel.id)
      s1 == IF channelIndex >= 0
            THEN [s EXCEPT !.selectedRow = channelIndex,
                           !.selectedCol = program.start]
            ELSE s
  IN openProgram(r, s1, program, channel)

\* A godselect that only finds the program of the current slot.
handleGodselectCurrentSlot(r, s, channelId, url) ==
  LET at == FindIndex(channelsOf(r), LAMBDA item : item.id = channelId)
      channel == IF at = -1 THEN NoChannel ELSE channelsOf(r)[at + 1]
  IN IF channel # NoChannel /\ getProgramForChannel(r, channel).url = url
     THEN handleGodmodePick(r, s, getProgramForChannel(r, channel), channel)
     ELSE s

\* msg.type === "godselect": the channel is looked up among the visible
\* channels, the program by its url.
handleGodselect(r, s, channelId, url) ==
  LET at == FindIndex(channelsOf(r), LAMBDA item : item.id = channelId)
      channel == IF at = -1 THEN NoChannel ELSE channelsOf(r)[at + 1]
      slotAt == IF channel = NoChannel THEN -1
                ELSE FindIndex(channel.schedule, LAMBDA slot : slot.url = url)
  IN IF channel # NoChannel /\ slotAt # -1
     THEN handleGodmodePick(r, s, channel.schedule[slotAt + 1], channel)
     ELSE s

handleSelect(r, s) ==
  LET selectedChannel == selectedChannelOf(r) IN
  IF selectedChannel = NoChannel THEN s
  ELSE IF \/ selectedChannel.id = GODMODE_CHANNEL_ID
          \/ selectedChannel.number = GODMODE_CHANNEL_NUMBER
  THEN send(r, [s EXCEPT !.playerOpen = FALSE],
            NowMessage(selectedChannel.id, selectedChannel.number, NoUrl))
  ELSE IF \/ selectedChannel.id = DEBUG_CHANNEL_ID
          \/ selectedChannel.number = DEBUG_CHANNEL_NUMBER
  THEN s
  ELSE
    LET currentProgram == getProgramForChannel(r, selectedChannel)
    IN IF currentProgram.url = NoUrl THEN s
       ELSE openProgram(r, s, currentProgram, selectedChannel)

\* Index (0-based) of the slot of schedule covering col, 0 when none does.
SlotIndexAt(schedule, col) ==
  LET currentIdx ==
        FindIndex(schedule, LAMBDA slot : col >= slot.start /\ col <= slot.end)
  IN IF currentIdx >= 0 THEN currentIdx ELSE 0

moveSelection(r, s, dir) ==
  LET visible == channelsOf(r)
      schedule == IF r.selectedRow >= 0 /\ r.selectedRow < Len(visible)
                  THEN visible[r.selectedRow + 1].schedule ELSE <<>>
      prev == s.selectedCol
  IN CASE dir = "up" ->
            [s EXCEPT !.selectedRow = NextRow(@, -1, Len(visible))]
       [] dir = "down" ->
            [s EXCEPT !.selectedRow = NextRow(@, 1, Len(visible))]
       [] dir = "left" ->
            IF Len(schedule) = 0 THEN s
            ELSE LET idx == SlotIndexAt(schedule, prev)
                     nextIdx == IF idx - 1 >= 0 THEN idx - 1 ELSE 0
                     target == schedule[nextIdx + 1].start
                 IN [s EXCEPT !.selectedCol =
                       IF target >= r.currentSlotIndex
                       THEN target ELSE r.currentSlotIndex]
       [] dir = "right" ->
            IF Len(schedule) = 0 THEN s
            ELSE LET idx == SlotIndexAt(schedule, prev)
                     nextIdx == IF idx + 1 <= Len(schedule) - 1
                                THEN idx + 1 ELSE Len(schedule) - 1
                 IN [s EXCEPT !.selectedCol = schedule[nextIdx + 1].start]

\* msg.type === "guide" and the Escape key: close the player.
closePlayer(r, s) == IF r.playerOpen THEN [s EXCEPT !.playerOpen = FALSE] ELSE s

\* ------------------------------------------------------------------------
\* App.tsx : effects of the display.  Each takes the state r just rendered
\* (its closure) and the state s its setState calls and refs build up.
\* ------------------------------------------------------------------------
\* useEffect [viewMode, channels.length, returnRowParam, currentSlotIndex]
ReturnRowEffect(r, s) ==
  LET length == Len(channelsOf(r)) IN
  IF length = 0 THEN s
  ELSE IF r.returnRowParam = NaN THEN s
  ELSE [s EXCEPT !.selectedRow = clamp(r.returnRowParam, 0, length - 1),
                 !.selectedCol = r.currentSlotIndex]

\* A clamp effect that clamps the row and leaves the column alone.
ClampSelectionEffectRowOnly(r, s) ==
  LET length == Len(channelsOf(r))
  IN IF length = 0 THEN s
     ELSE [s EXCEPT !.selectedRow = clamp(@, 0, length - 1)]

\* useEffect [channels.length, slotCount, currentSlotIndex]
ClampSelectionEffect(r, s) ==
  LET length == Len(channelsOf(r))
      maxCol == IF slotCountOf(r) - 1 >= 0 THEN slotCountOf(r) - 1 ELSE 0
  IN IF length = 0 THEN s
     ELSE [s EXCEPT
             !.selectedRow = clamp(@, 0, length - 1),
             !.selectedCol =
               clamp(IF @ >= r.currentSlotIndex THEN @ ELSE r.currentSlotIndex,
                     0, maxCol)]

\* useEffect [viewMode, currentSlotIndex, selectedCol]
SlotAdvanceEffect(r, s) ==
  LET prevSlot == s.lastCurrentSlotRef
      s1 == IF r.currentSlotIndex # prevSlot /\ r.selectedCol <= prevSlot
            THEN [s EXCEPT !.selectedCol = r.currentSlotIndex]
            ELSE s
  IN [s1 EXCEPT !.lastCurrentSlotRef = r.currentSlotIndex]

activeAppIdOf(s) == getAppIdFromUrl(s.playerUrl)

\* useEffect [viewMode, playerOpen, activeAppId, send]
AppMessageEffect(r, s) ==
  LET nextAppId == IF r.playerOpen THEN activeAppIdOf(r) ELSE NoApp IN
  IF s.lastAppMessageRef = nextAppId THEN s
  ELSE send(s, [s EXCEPT !.lastAppMessageRef = nextAppId],
            AppMessage(nextAppId))

\* One commit: the effects whose dependencies differ between the previous
\* render p and this render r run in declaration order (all of them on
\* mount).
RunEffects(p, r, mount) ==
  LET lengthChanged == Len(channelsOf(p)) # Len(channelsOf(r))
      slotChanged == p.currentSlotIndex # r.currentSlotIndex
      s0 == r
      s1 == IF mount \/ lengthChanged \/ slotChanged
               \/ p.returnRowParam # r.returnRowParam
            THEN ReturnRowEffect(r, s0) ELSE s0
      s2 == IF mount \/ lengthChanged \/ slotChanged
               \/ slotCountOf(p) # slotCountOf(r)
            THEN ClampSelectionEffect(r, s1) ELSE s1
      s3 == IF mount \/ slotChanged \/ p.selectedCol # r.selectedCol
            THEN SlotAdvanceEffect(r, s2) ELSE s2
      s4 == IF mount \/ p.playerOpen # r.playerOpen
               \/ activeAppIdOf(p) # activeAppIdOf(r)
            THEN AppMessageEffect(r, s3) ELSE s3
  IN s4

\* Renders and commits until no effect changes the state any more.
RECURSIVE Settle(_, _, _)
Settle(p, r, fuel) ==
  LET s == RunEffects(p, r, FALSE)
  IN IF s = r \/ fuel = 0 THEN s ELSE Settle(r, s, fuel - 1)

SettleDepth == 4

\* An event: the handler's updates applied to the rendered state, then the
\* renders and effects they cause.
AfterEvent(s) == Settle(DisplayState, s, SettleDepth)

\* ------------------------------------------------------------------------
\* Display: initial state and actions
\* ------------------------------------------------------------------------
ReturnRowParams == {NaN, 0}

\* tune(number): no text, no number, an unassigned number, a number written
\* with and without padding, the number of a hidden channel, the reserved
\* numbers.
TuneNumbers ==
  { <<>>, <<CharX>>, <<4>>, <<1>>, <<CharSp, 0, 1>>, <<9>>,
    <<6, 7>>, <<0, 6, 7>>, <<0, 2, 6>> }

\* godselect(channelId, url): a program of the current slot, one of a later
\* slot, a channel without that url, a hidden channel, a message without url.
GodselectPicks ==
  { <<"one", "a.png">>, <<"blank", "c.mp4">>, <<"dup", "a.png">>,
    <<"debug", "b.png">>, <<"one", NoUrl>> }

MountState(index, slot, returnRow) ==
  LET FirstRender(ensured) ==
        [indexData |-> ensured,
         channels |-> VisibleChannels(ensured.channels),
         currentSlotIndex |-> slot, returnRowParam |-> returnRow,
         selectedRow |-> 0, selectedCol |-> 0,
         playerOpen |-> FALSE, playerUrl |-> NoUrl,
         playerChannelIndex |-> NULL,
         lastCurrentSlotRef |-> slot, lastAppMessageRef |-> NoApp,
         displaySocketOpen |-> FALSE, sent |-> <<>>]
      Mounted(s) == Settle(s, RunEffects(s, s, TRUE), SettleDepth)
  IN Mounted(FirstRender(ensureSystemChannels(index)))

Op(type) == [type |-> type, number |-> <<>>, dir |-> "", channelId |-> "",
             url |-> NoUrl, urls |-> <<>>, dirs |-> <<>>, element |-> 0]

DisplayStateIs(s) ==
  /\ indexData = s.indexData
  /\ channels = s.channels
  /\ currentSlotIndex = s.currentSlotIndex
  /\ returnRowParam = s.returnRowParam
  /\ selectedRow = s.selectedRow
  /\ selectedCol = s.selectedCol
  /\ playerOpen = s.playerOpen
  /\ playerUrl = s.playerUrl
  /\ playerChannelIndex = s.playerChannelIndex
  /\ lastCurrentSlotRef = s.lastCurrentSlotRef
  /\ lastAppMessageRef = s.lastAppMessageRef
  /\ displaySocketOpen = s.displaySocketOpen
  /\ sent = s.sent
  /\ lastAppSent = NoApp

InitDisplay ==
  /\ \E index \in RawIndexes, returnRow \in ReturnRowParams :
       \E slot \in 0..(index.slotCount - 1) :
         \E mounted \in {MountState(index, slot, returnRow)} :
           DisplayStateIs(mounted)
  /\ lastOp = Op("mount")

\* An event handled by the display: op names it, s is what its handler made
\* of the rendered state.
DisplayEvent(op, s) ==
  /\ \E after \in {AfterEvent(s)} : SetDisplayState(after)
  /\ lastOp' = op
  /\ UNCHANGED << remoteVars, preloadVars, libVars, netVars, pacerVars, pollVars >>

\* The socket handler, on tune: messages arrive only on an open socket.
RecvTune(number) ==
  /\ displaySocketOpen
  /\ DisplayEvent([Op("tune") EXCEPT !.number = number],
                  handleTuneToNumber(DisplayState, DisplayState, number))

\* handleChannelChange, called by the socket handler on channel(dir) and by
\* handleKey on PageUp/PageDown while the player is open.
StepChannel(dir) ==
  /\ displaySocketOpen \/ playerOpen
  /\ DisplayEvent([Op("channel") EXCEPT !.dir = dir],
                  handleChannelChange(DisplayState, DisplayState, dir))

\* moveSelection, called by the socket handler on nav(dir) and by handleKey
\* on the arrow keys (and on PageUp/PageDown while the player is closed).
Nav(dir) ==
  DisplayEvent(Op("nav"), moveSelection(DisplayState, DisplayState, dir))

\* handleSelect, called by the socket handler on select and by handleKey on
\* Enter.
Select ==
  DisplayEvent(Op("select"), handleSelect(DisplayState, DisplayState))

RecvGodselect(channelId, url) ==
  /\ displaySocketOpen
  /\ DisplayEvent([Op("godselect") EXCEPT !.channelId = channelId, !.url = url],
                  handleGodselect(DisplayState, DisplayState, channelId, url))

\* setPlayerOpen(false), by the socket handler on guide and by handleKey on
\* Escape/Backspace, both while the player is open.
ClosePlayer ==
  /\ playerOpen
  /\ DisplayEvent(Op("guide"), closePlayer(DisplayState, DisplayState))

\* setNow every second: the current slot follows the clock (forward through
\* the day, back to 0 at the daily rollover).
SlotChange(slot) ==
  /\ slot # currentSlotIndex
  /\ DisplayEvent(Op("slot"),
                  [DisplayState EXCEPT !.currentSlotIndex = slot])

\* GuideGrid.tsx, onClick of a program card: the card's row is selected, and
\* the later of the card's first visible slot and the current slot.  Cards
\* are rendered for the programs that reach into the visible window, which
\* starts at visibleStartSlot (scroll state, an input here).
onClickProgram(r, s, rowIndex, program, visibleStartSlot) ==
  LET clippedStart == SetMax({program.start, visibleStartSlot})
  IN [s EXCEPT !.selectedRow = rowIndex,
               !.selectedCol = SetMax({clippedStart, r.currentSlotIndex})]

GridClick(rowIndex, programIndex, visibleStartSlot) ==
  /\ rowIndex < Len(channels)
  /\ programIndex <= Len(channels[rowIndex + 1].schedule)
  /\ visibleStartSlot < indexData.slotCount
  /\ channels[rowIndex + 1].schedule[programIndex].end >= visibleStartSlot
  /\ DisplayEvent(Op("click"),
                  onClickProgram(DisplayState, DisplayState, rowIndex,
                                 channels[rowIndex + 1].schedule[programIndex],
                                 visibleStartSlot))

\* The snapshots /api/index serves over time.
ServedIndexes == {IndexMixed, IndexMedia}

\* fetchIndex resolves with a snapshot that has channels:
\* setIndexData(ensureSystemChannels(data)).  channels, slotCount and
\* currentSlotIndex are derived from it in the same render; slot is what
\* getCurrentSlotIndex gives for the snapshot's startTime and slotMinutes.
IndexArrives(index, slot) ==
  /\ Len(index.channels) > 0
  /\ ensureSystemChannels(index) # indexData
  /\ slot < index.slotCount
  /\ DisplayEvent(Op("index"),
                  [DisplayState EXCEPT
                     !.indexData = ensureSystemChannels(index),
                     !.channels = VisibleChannels(ensureSystemChannels(index).channels),
                     !.currentSlotIndex = slot])

\* The socket of useRemoteSocket opens and closes.
DisplaySocketOpens ==
  /\ ~displaySocketOpen
  /\ DisplayEvent(Op("socket"), [DisplayState EXCEPT !.displaySocketOpen = TRUE])

DisplaySocketCloses ==
  /\ displaySocketOpen
  /\ DisplayEvent(Op("socket"), [DisplayState EXCEPT !.displaySocketOpen = FALSE])

NextDisplay ==
  \/ \E number \in TuneNumbers : RecvTune(number)
  \/ \E dir \in {"up", "down"} : StepChannel(dir)
  \/ \E dir \in {"up", "down", "left", "right"} : Nav(dir)
  \/ Select
  \/ \E pick \in GodselectPicks : RecvGodselect(pick[1], pick[2])
  \/ ClosePlayer
  \/ \E slot \in 0..(indexData.slotCount - 1) : SlotChange(slot)
  \/ \E rowIndex \in 0..MaxRows - 1, programIndex \in 1..MaxSlots,
          visibleStartSlot \in 0..MaxSlots - 1 :
       GridClick(rowIndex, programIndex, visibleStartSlot)
  \/ \E index \in ServedIndexes, slot \in 0..MaxSlots - 1 :
       IndexArrives(index, slot)
  \/ DisplaySocketOpens
  \/ DisplaySocketCloses

\* With PRELOAD_MODE "none" usePreloadManager preloads and attaches nothing
\* and sets no state of the display.  (With "image" it sets none either;
\* with "all" it sets playerUrl while the player is closed, which no handler
\* of the display reads.)
InitPreloadOff ==
  /\ PRELOAD_MODE = "none"
  /\ nowTs = 0
  /\ preloadCache = <<>>
  /\ previewAttachedRef = NULL
  /\ preloadUrl = NoUrl
  /\ preloadTimerRef = NoUrl
  /\ neighborTimer = <<>>
  /\ elementCount = 0
  /\ pendingLoads = {}
  /\ parentElement = <<>>
  /\ elementSrc = <<>>
  /\ stalePreloadTimers = {}

\* dialTimeoutRef holds the buffer captured by the pending commit timer; no
\* timer is pending when it is empty (a timer is armed for a non-empty buffer
\* only).
NoTimer == <<>>

\* The pacer before any frame: useState(0), useRef(0), useRef(false),
\* useRef(null).
InitPacerIdle ==
  /\ scrollOffset = 0
  /\ pauseUntilRef = 0
  /\ autoHoldUntilRef = 0
  /\ autoResetPendingRef = FALSE
  /\ isPaused = FALSE
  /\ prevPausedRef = FALSE
  /\ lastFrameRef = NULL
  /\ pausedCheckedAt = 0
  /\ pacerInputs = 0

\* No server and no poll.
InitPollIdle ==
  /\ guideIndex = [generatedAt |-> 0, slotCount |-> 0, channels |-> <<>>]
  /\ fetches = <<>>
  /\ pollInterval = FALSE
  /\ indexNotices = 0

\* No call of getCurrentSlotIndex or buildSchedule is on record.
InitLibIdle ==
  libCall = [fn |-> "none"]

Clients == {"display", "remote"}

MaxSockets == 2

\* A WebSocket that does not exist (any more): readyState CLOSED, nothing in
\* flight.  up is what the client wrote and the server has not yet read,
\* down what the server wrote and the client has not yet read.
NoSocket == [readyState |-> "closed", up |-> <<>>, down |-> <<>>]

\* useRemoteSocket before its effect has run.
HookAtFirstRender ==
  [status |-> "connecting", socketRef |-> NULL, retryRef |-> 0,
   reconnectTimerRef |-> NULL, previousDelay |-> 0, timers |-> 0]

\* sendCount numbers the send calls and the texts of other connections;
\* handled: the numbers of the texts the server's message handler was given;
\* dropped: the send calls that wrote nothing; lastNowId: the latest send
\* call of the display for a now message; failures counts lost connections;
\* missedNows: the now messages relayed while the remote had no open socket;
\* away: one of them was, and the remote has handled no now since.
WireIdle ==
  [sendCount |-> 0, handled |-> {}, dropped |-> {}, lastNowId |-> 0,
   failures |-> 0, missedNows |-> {}, away |-> FALSE]

NetOp(type) == [type |-> type, client |-> "", slot |-> 0]

\* remoteNowChannel before any now message: useState(null).
NoNowChannel == [id |-> "", number |-> <<>>]

InitNetIdle ==
  /\ hook = [c \in Clients |-> HookAtFirstRender]
  /\ sockets = [c \in Clients |-> [k \in 1..MaxSockets |-> NoSocket]]
  /\ liveChannel = [id |-> "", number |-> <<>>, url |-> NoUrl]
  /\ remoteNowChannel = NoNowChannel
  /\ wire = WireIdle
  /\ netOp = NetOp("none")

InitRemoteIdle ==
  /\ dialBuffer = <<>>
  /\ dialTimeoutRef = NoTimer
  /\ remoteGodmodeOpen = FALSE
  /\ remoteSocketOpen = FALSE
  /\ remoteSent = <<>>
  /\ dialEvents = <<>>
  /\ staleDialTimers = {}
  /\ dialUpdates = <<>>

DisplayInit == InitDisplay /\ InitRemoteIdle /\ InitPreloadOff /\ InitLibIdle /\ InitPacerIdle /\ InitPollIdle /\ InitNetIdle

SpecDisplay == DisplayInit /\ [][NextDisplay]_vars

\* ------------------------------------------------------------------------
\* useRemoteSocket.ts with App.tsx : messages handled by one handler
\* ------------------------------------------------------------------------
\* The message listener calls handlerRef.current, which an effect sets to
\* the handler of the latest render (useRemoteSocket.ts 15-17, 47-55).  The
\* messages that arrive before the display has rendered again and run that
\* effect are all given to the handler of the same render r: each call
\* reads the state of r and adds its updates to those of the calls before.
MaxBurst == 2

RECURSIVE handleChannelMessages(_, _, _)
handleChannelMessages(r, s, dirs) ==
  IF dirs = <<>> THEN s
  ELSE handleChannelMessages(r, handleChannelChange(r, s, Head(dirs)),
                             Tail(dirs))

ChannelBursts == UNION { [1..n -> {"up", "down"}] : n \in 1..MaxBurst }

\* channel(dir) messages, one or several before the next render.
RecvChannels(dirs) ==
  /\ displaySocketOpen
  /\ DisplayEvent([Op("channels") EXCEPT !.dirs = dirs],
                  handleChannelMessages(DisplayState, DisplayState, dirs))

NextBurst ==
  \/ \E dirs \in ChannelBursts : RecvChannels(dirs)
  \/ \E dir \in {"up", "down", "left", "right"} : Nav(dir)
  \/ Select
  \/ ClosePlayer
  \/ \E slot \in 0..(indexData.slotCount - 1) : SlotChange(slot)
  \/ DisplaySocketOpens
  \/ DisplaySocketCloses

SpecBurst == DisplayInit /\ [][NextBurst]_vars

\* ------------------------------------------------------------------------
\* App.tsx : the auto-scroll pacer of the guide view
\* ------------------------------------------------------------------------
USER_PAUSE_MS == 6500
AUTO_SCROLL_PX_PER_SEC == 14
AUTO_SCROLL_END_HOLD_MS == 2200

\* The time between two animation frames, also the longest time between two
\* runs of the interval that refreshes isPaused, and the number of such
\* steps of the clock.
PacerStepMs == 500
MaxPacerSteps == 22
MaxPacerInputs == 2

\* What getViewportMetrics measures in the DOM, in px: the height of the
\* viewport inside its padding, the height of a row and the gap of the rows.
Viewport == [innerHeight |-> 18, rowHeight |-> 8, gap |-> 2]

getViewportMetrics(length) ==
  [innerHeight |-> Viewport.innerHeight,
   gap |-> Viewport.gap,
   stride |-> Viewport.rowHeight + Viewport.gap,
   contentHeight |->
     SetMax({0, length * Viewport.rowHeight
                + SetMax({0, length - 1}) * Viewport.gap})]

getScrollBounds(length) ==
  LET metrics == getViewportMetrics(length)
  IN [stride |-> metrics.stride,
      maxScroll |-> SetMax({0, metrics.contentHeight - metrics.innerHeight})]

\* updateRows: setVisibleRows(max(1, floor((innerHeight + gap) / stride))).
visibleRows(length) ==
  LET metrics == getViewportMetrics(length)
  IN SetMax({1, (metrics.innerHeight + metrics.gap) \div metrics.stride})

PacerState ==
  [scrollOffset |-> scrollOffset, pauseUntilRef |-> pauseUntilRef,
   autoHoldUntilRef |-> autoHoldUntilRef,
   autoResetPendingRef |-> autoResetPendingRef,
   isPaused |-> isPaused, prevPausedRef |-> prevPausedRef,
   lastFrameRef |-> lastFrameRef]

SetPacerState(ps) ==
  /\ scrollOffset' = ps.scrollOffset
  /\ pauseUntilRef' = ps.pauseUntilRef
  /\ autoHoldUntilRef' = ps.autoHoldUntilRef
  /\ autoResetPendingRef' = ps.autoResetPendingRef
  /\ isPaused' = ps.isPaused
  /\ prevPausedRef' = ps.prevPausedRef
  /\ lastFrameRef' = ps.lastFrameRef

\* The offset that puts the selected row in the middle of the viewport, as
\* far as the ends of the list allow.
SnapOffset(row, length) ==
  LET bounds == getScrollBounds(length)
      anchor == visibleRows(length) \div 2
      desired == clamp(row - anchor, 0,
                       SetMax({0, length - visibleRows(length)}))
  IN clamp(desired * bounds.stride, 0, bounds.maxScroll)

\* The effect on [isPaused, channels.length, selectedRow, visibleRows,
\* getScrollBounds]: on entering and on leaving the pause the offset is set
\* to the snap offset and lastFrameRef is cleared.
PauseTransitionEffect(ps, row, length) ==
  IF ps.prevPausedRef # ps.isPaused
  THEN [ps EXCEPT !.scrollOffset = SnapOffset(row, length),
                  !.lastFrameRef = NULL,
                  !.prevPausedRef = ps.isPaused]
  ELSE ps

\* The effect on [channels.length, selectedRow, visibleRows,
\* getScrollBounds]: while the pause is open the offset follows the
\* selected row.
SnapToSelectionEffect(ps, row, length, nowMs) ==
  IF nowMs < ps.pauseUntilRef
  THEN [ps EXCEPT !.scrollOffset = SnapOffset(row, length)]
  ELSE ps

\* A tick that does not look at the pause.
tickIgnoringPause(ps, time, nowMs, maxScroll) ==
  LET delta == IF ps.lastFrameRef = NULL THEN 0 ELSE time - ps.lastFrameRef
      next == ps.scrollOffset + (AUTO_SCROLL_PX_PER_SEC * delta) \div 1000
  IN [ps EXCEPT !.lastFrameRef = time,
                !.scrollOffset = SetMin({next, maxScroll})]

\* A tick that turns back at the end of the list at once.
tickWithoutHold(ps, time, nowMs, maxScroll) ==
  LET delta == IF ps.lastFrameRef = NULL THEN 0 ELSE time - ps.lastFrameRef
      next == ps.scrollOffset + (AUTO_SCROLL_PX_PER_SEC * delta) \div 1000
  IN IF nowMs >= ps.pauseUntilRef
     THEN [ps EXCEPT !.lastFrameRef = time,
                     !.scrollOffset = IF next >= maxScroll THEN 0 ELSE next]
     ELSE [ps EXCEPT !.lastFrameRef = time]

\* tick of the auto-scroll effect, one animation frame at time, with
\* Date.now() = nowMs; the updater of setScrollOffset is applied to the
\* offset of the state.
tick(ps, time, nowMs, maxScroll) ==
  LET delta == IF ps.lastFrameRef = NULL THEN 0 ELSE time - ps.lastFrameRef
      framed == [ps EXCEPT !.lastFrameRef = time]
      next == ps.scrollOffset + (AUTO_SCROLL_PX_PER_SEC * delta) \div 1000
      hold == nowMs + AUTO_SCROLL_END_HOLD_MS
  IN IF nowMs >= ps.pauseUntilRef
     THEN IF ps.autoHoldUntilRef > nowMs THEN framed
          ELSE IF ps.autoResetPendingRef
          THEN [framed EXCEPT !.autoResetPendingRef = FALSE,
                              !.autoHoldUntilRef = hold,
                              !.scrollOffset = 0]
          ELSE IF ps.scrollOffset >= maxScroll \/ next >= maxScroll
          THEN [framed EXCEPT !.autoResetPendingRef = TRUE,
                              !.autoHoldUntilRef = hold,
                              !.scrollOffset = maxScroll]
          ELSE [framed EXCEPT !.scrollOffset = next]
     ELSE framed

PacerFrame ==
  UNCHANGED << remoteVars, preloadVars, libVars, netVars, pollVars >>

\* requestAnimationFrame(tick): one frame at each instant of the clock, and
\* one more after lastFrameRef was cleared.
Frame ==
  /\ lastFrameRef # nowTs
  /\ SetPacerState(tick(PacerState, nowTs, nowTs,
                        getScrollBounds(Len(channels)).maxScroll))
  /\ UNCHANGED << displayVars, pausedCheckedAt, pacerInputs >>
  /\ PacerFrame

\* The interval of 100 ms: setIsPaused(Date.now() < pauseUntilRef.current),
\* and the pause effect when the flag changed.
PausedCheck ==
  /\ pausedCheckedAt # nowTs \/ isPaused # (nowTs < pauseUntilRef)
  /\ SetPacerState(PauseTransitionEffect(
                     [PacerState EXCEPT !.isPaused = nowTs < pauseUntilRef],
                     selectedRow, Len(channels)))
  /\ pausedCheckedAt' = nowTs
  /\ UNCHANGED << displayVars, pacerInputs >>
  /\ PacerFrame

PacerClockAdvances ==
  /\ lastFrameRef = nowTs
  /\ pausedCheckedAt = nowTs
  /\ nowTs < MaxPacerSteps * PacerStepMs
  /\ nowTs' = nowTs + PacerStepMs
  /\ UNCHANGED << displayVars, remoteVars, libVars, netVars, pacerVars,
                  pollVars,
                  PRELOAD_MODE, preloadCache, previewAttachedRef, preloadUrl,
                  preloadTimerRef, neighborTimer, elementCount, pendingLoads,
                  parentElement, elementSrc, stalePreloadTimers >>

\* handleTuneToNumber sets pauseUntilRef when the number is that of a
\* channel of the visible list (the reserved numbers return before).
tunePauses(r, value) ==
  LET targetNumber == normalizeChannelNumber(value) IN
  /\ targetNumber # NULL
  /\ ReservedChannel(value, targetNumber) = NoChannel
  /\ TuneTarget(r, targetNumber) # NoChannel
  /\ FindIndex(channelsOf(r),
               LAMBDA channel :
                 channel.id = TuneTarget(r, targetNumber).id) >= 0

\* An input of the display while the pacer runs: the handler (which sets
\* pauseUntilRef when pauses holds), then the renders and effects of the
\* display, the effect that sets pauseUntilRef when the player closed, and
\* the two effects that depend on selectedRow.
PacerInput(op, s, pauses) ==
  /\ pacerInputs < MaxPacerInputs
  /\ pacerInputs' = pacerInputs + 1
  /\ \E after \in {AfterEvent(s)} :
       LET armed == IF pauses \/ (playerOpen /\ ~after.playerOpen)
                    THEN [PacerState EXCEPT
                            !.pauseUntilRef = nowTs + USER_PAUSE_MS]
                    ELSE PacerState
           length == Len(after.channels)
           moved == after.selectedRow # selectedRow
           e1 == IF moved
                 THEN PauseTransitionEffect(armed, after.selectedRow, length)
                 ELSE armed
           e2 == IF moved
                 THEN SnapToSelectionEffect(e1, after.selectedRow, length,
                                            nowTs)
                 ELSE e1
       IN /\ SetDisplayState(after)
          /\ SetPacerState(e2)
  /\ lastOp' = op
  /\ UNCHANGED pausedCheckedAt
  /\ PacerFrame

\* Tunes to a visible channel, to the two reserved numbers and to a hidden
\* channel.
PacerTunes == { <<1>>, <<6, 7>>, <<0, 2, 6>>, <<9>> }

NextPacer ==
  \/ Frame
  \/ PausedCheck
  \/ PacerClockAdvances
  \/ \E dir \in {"up", "down", "left", "right"} :
       PacerInput(Op("nav"), moveSelection(DisplayState, DisplayState, dir),
                  TRUE)
  \/ \E dir \in {"up", "down"} :
       PacerInput([Op("channel") EXCEPT !.dir = dir],
                  handleChannelChange(DisplayState, DisplayState, dir),
                  Len(channels) > 0)
  \/ \E number \in PacerTunes :
       PacerInput([Op("tune") EXCEPT !.number = number],
                  handleTuneToNumber(DisplayState, DisplayState, number),
                  tunePauses(DisplayState, number))

\* The guide mounted on the mixed index at slot 0, no return row, the
\* socket open.
InitPacer ==
  /\ DisplayStateIs([MountState(IndexMixed, 0, NaN) EXCEPT
                       !.displaySocketOpen = TRUE])
  /\ lastOp = Op("mount")
  /\ InitPacerIdle

PacerInit ==
  /\ InitPacer /\ InitRemoteIdle /\ InitPreloadOff /\ InitLibIdle
  /\ InitPollIdle /\ InitNetIdle

SpecPacer == PacerInit /\ [][NextPacer]_vars

\* ------------------------------------------------------------------------
\* App.tsx : fetchIndex, its poll and the index message; server/index.ts :
\* the snapshot served
\* ------------------------------------------------------------------------
MaxFetches == 2
MaxRebuilds == 2

\* let guideIndex before the first rebuildIndex has finished.
IndexNotReady == [generatedAt |-> 0, slotCount |-> 0, channels |-> <<>>]

\* A snapshot built from a config without channels.
IndexEmpty == [generatedAt |-> 1, slotCount |-> 2, channels |-> <<>>]

BuiltIndexes == {IndexMixed, IndexMedia, IndexEmpty}

NoFetch == [state |-> "none", kind |-> "", data |-> IndexNotReady]

\* A fetchIndex that applies whatever JSON it gets.
fetchIndexUnchecked(s, result) ==
  IF result.kind = "json"
  THEN [s EXCEPT !.indexData = ensureSystemChannels(result.data),
                 !.channels =
                    VisibleChannels(ensureSystemChannels(result.data).channels)]
  ELSE s

\* fetchIndex after its awaits: result is what fetch and res.json() gave (a
\* rejection, a status that is not ok, or the parsed snapshot).
fetchIndex(s, result) ==
  IF result.kind = "json" /\ Len(result.data.channels) > 0
  THEN [s EXCEPT !.indexData = ensureSystemChannels(result.data),
                 !.channels =
                    VisibleChannels(ensureSystemChannels(result.data).channels)]
  ELSE s

PollFrame ==
  UNCHANGED << remoteVars, preloadVars, libVars, netVars, pacerVars >>

\* rebuildIndex of the server: a new snapshot, generatedAt = Date.now(), and
\* the broadcast of an index message, which the display's socket receives.
rebuildIndex(built) ==
  /\ guideIndex.generatedAt < MaxRebuilds
  /\ guideIndex' = [built EXCEPT !.generatedAt = guideIndex.generatedAt + 1]
  /\ indexNotices' = indexNotices + 1
  /\ UNCHANGED << displayVars, fetches, pollInterval >>
  /\ PollFrame

StartFetch(id) ==
  /\ fetches[id].state = "none"
  /\ fetches' = [fetches EXCEPT ![id].state = "sent"]

\* window.setInterval(() => void fetchIndex(), 5000)
PollFires(id) ==
  /\ pollInterval
  /\ StartFetch(id)
  /\ UNCHANGED << displayVars, guideIndex, pollInterval, indexNotices >>
  /\ PollFrame

\* The socket handler on an index message (viewMode is "guide").
RecvIndex(id) ==
  /\ indexNotices > 0
  /\ indexNotices' = indexNotices - 1
  /\ StartFetch(id)
  /\ lastOp' = Op("index-message")
  /\ UNCHANGED << indexData, channels, currentSlotIndex, returnRowParam,
                  selectedRow, selectedCol, playerOpen, playerUrl,
                  playerChannelIndex, lastCurrentSlotRef, lastAppMessageRef,
                  displaySocketOpen, sent, lastAppSent >>
  /\ UNCHANGED << guideIndex, pollInterval >>
  /\ PollFrame

\* app.get('/api/index'): 503 while there is no snapshot, else the snapshot
\* of this moment; or the request fails on the way.
ServeIndex(id, reaches) ==
  /\ fetches[id].state = "sent"
  /\ fetches' = [fetches EXCEPT ![id] =
       IF ~reaches
       THEN [NoFetch EXCEPT !.state = "answered", !.kind = "throw"]
       ELSE IF guideIndex = IndexNotReady
       THEN [NoFetch EXCEPT !.state = "answered", !.kind = "status"]
       ELSE [state |-> "answered", kind |-> "json", data |-> guideIndex]]
  /\ UNCHANGED << displayVars, guideIndex, pollInterval, indexNotices >>
  /\ PollFrame

\* The response of one fetch arrives and fetchIndex runs to its end.
FetchResolves(id, slot) ==
  /\ fetches[id].state = "answered"
  /\ fetches' = [fetches EXCEPT ![id] = NoFetch]
  /\ \E applied \in {fetchIndex(DisplayState, fetches[id])} :
       IF applied = DisplayState
       THEN /\ slot = currentSlotIndex
            /\ SetDisplayState(DisplayState)
            /\ lastOp' = Op("index-kept")
       ELSE /\ slot < applied.indexData.slotCount
            /\ SetDisplayState(
                 AfterEvent([applied EXCEPT !.currentSlotIndex = slot]))
            /\ lastOp' = Op("index")
  /\ UNCHANGED << guideIndex, pollInterval, indexNotices >>
  /\ PollFrame

NextPoll ==
  \/ \E built \in BuiltIndexes : rebuildIndex(built)
  \/ \E id \in 1..MaxFetches : PollFires(id)
  \/ \E id \in 1..MaxFetches : RecvIndex(id)
  \/ \E id \in 1..MaxFetches, reaches \in BOOLEAN : ServeIndex(id, reaches)
  \/ \E id \in 1..MaxFetches, slot \in 0..MaxSlots - 1 :
       FetchResolves(id, slot)
  \/ Nav("down")
  \/ Select
  \/ ClosePlayer

\* The guide mounted on the fallback index; the poll effect has armed its
\* interval and the server has no snapshot yet.
InitPoll ==
  /\ guideIndex = IndexNotReady
  /\ fetches = [id \in 1..MaxFetches |-> NoFetch]
  /\ pollInterval = TRUE
  /\ indexNotices = 0

PollInit ==
  /\ DisplayStateIs([MountState(IndexMixed, 0, NaN) EXCEPT
                       !.indexData.generatedAt = 0,
                       !.displaySocketOpen = TRUE])
  /\ lastOp = Op("mount")
  /\ InitRemoteIdle /\ InitPreloadOff /\ InitLibIdle
  /\ InitPacerIdle
  /\ InitNetIdle /\ InitPoll

SpecPoll == PollInit /\ [][NextPoll]_vars

\* ------------------------------------------------------------------------
\* App.tsx : the dial of a remote (viewMode = "remote")
\* ------------------------------------------------------------------------
RemoteState ==
  [dialBuffer |-> dialBuffer, dialTimeoutRef |-> dialTimeoutRef,
   remoteGodmodeOpen |-> remoteGodmodeOpen, remoteSent |-> remoteSent,
   staleDialTimers |-> staleDialTimers, dialUpdates |-> dialUpdates]

SetRemoteState(rs) ==
  /\ dialBuffer' = rs.dialBuffer
  /\ dialTimeoutRef' = rs.dialTimeoutRef
  /\ remoteGodmodeOpen' = rs.remoteGodmodeOpen
  /\ remoteSent' = rs.remoteSent
  /\ staleDialTimers' = rs.staleDialTimers
  /\ dialUpdates' = rs.dialUpdates

\* useRemoteSocket.send on the remote's socket.
remoteSend(rs, message) ==
  [rs EXCEPT !.remoteSent = Append(@, [message EXCEPT !.tx = remoteSocketOpen])]

\* A truncation that keeps the oldest three characters.
SliceFirst3(s) == IF Len(s) <= 3 THEN s ELSE SubSeq(s, 1, 3)

\* `${prev}${digit}`.slice(-3)
SliceLast3(s) == IF Len(s) <= 3 THEN s ELSE SubSeq(s, Len(s) - 2, Len(s))

\* A commit that announces the value but forgets to clear the buffer.
commitDialKeepingBuffer(rs, value) ==
  IF value = <<>> THEN rs
  ELSE remoteSend(remoteSend(rs, DialMessage(value, TRUE)), TuneMessage(value))

commitDial(rs, value) ==
  IF value = <<>> THEN rs
  ELSE
    LET normalized == normalizeChannelNumber(value)
        rs1 == [rs EXCEPT !.remoteGodmodeOpen = (normalized = 67)]
        rs2 == remoteSend(rs1, DialMessage(value, TRUE))
        rs3 == remoteSend(rs2, TuneMessage(value))
    IN [rs3 EXCEPT !.dialBuffer = <<>>]

\* A dial effect that arms the timer for every buffer, full or not.
DialEffectAlwaysWaiting(rs) ==
  IF rs.dialBuffer = <<>> THEN [rs EXCEPT !.dialTimeoutRef = NoTimer]
  ELSE [remoteSend(rs, DialMessage(rs.dialBuffer, FALSE))
          EXCEPT !.dialTimeoutRef = rs.dialBuffer]

\* dialTimeoutRef.current = window.setTimeout(...): the ref names the new
\* timer; a timer it named before, if still pending, stays pending with no
\* ref to clear it by.
ArmDialTimer(rs, value) ==
  [rs EXCEPT !.staleDialTimers = IF rs.dialTimeoutRef # NoTimer
                                 THEN @ \cup {rs.dialTimeoutRef} ELSE @,
             !.dialTimeoutRef = value]

\* A dial effect that arms the timer without clearing the pending one.
DialEffectNoCancel(rs) ==
  IF rs.dialBuffer = <<>> THEN rs
  ELSE
    LET announced == remoteSend(rs, DialMessage(rs.dialBuffer, FALSE)) IN
    IF Len(rs.dialBuffer) >= 3
    THEN commitDial(announced, rs.dialBuffer)
    ELSE ArmDialTimer(announced, rs.dialBuffer)

\* The effect on dialBuffer, with the cleanup of its previous run: the
\* pending timer is cleared, the buffer is announced, a full buffer is
\* committed at once and any other one arms the 700 ms timer.  commitDial
\* empties the buffer, for which the effect runs once more and does nothing.
DialEffect(rs) ==
  LET cleared == [rs EXCEPT !.dialTimeoutRef = NoTimer] IN
  IF rs.dialBuffer = <<>> THEN cleared
  ELSE
    LET announced == remoteSend(cleared, DialMessage(rs.dialBuffer, FALSE)) IN
    IF Len(rs.dialBuffer) >= 3
    THEN commitDial(announced, rs.dialBuffer)
    ELSE ArmDialTimer(announced, rs.dialBuffer)

pushDialDigit(rs, digit) ==
  LET next == SliceLast3(Append(rs.dialBuffer, digit))
  IN IF next = rs.dialBuffer THEN rs
     ELSE DialEffect([rs EXCEPT !.dialBuffer = next])

\* The 700 ms timer fires: commitDial of the buffer it captured, then the
\* effect for the emptied buffer.
DialTimerFires(rs, value) ==
  LET fired == IF value = rs.dialTimeoutRef
               THEN [rs EXCEPT !.dialTimeoutRef = NoTimer]
               ELSE [rs EXCEPT !.staleDialTimers = @ \ {value}]
      committed == commitDial(fired, value)
  IN IF committed.dialBuffer # rs.dialBuffer THEN DialEffect(committed)
     ELSE committed

\* The commit timers that are pending.
PendingDialTimers ==
  staleDialTimers \cup (IF dialTimeoutRef # NoTimer THEN {dialTimeoutRef} ELSE {})

\* What happened on the remote, in order: a digit pushed, the timer firing,
\* the socket opening or closing.
TimeoutEvent == 10
SocketEvent == 11
DialDigits == {0, 2, 6, 7}

RemoteEvent(event, rs) ==
  /\ Len(dialEvents) < MaxDialEvents
  /\ dialEvents' = Append(dialEvents, event)
  /\ \E after \in {rs} : SetRemoteState(after)
  /\ UNCHANGED << displayVars, preloadVars, libVars, netVars, pacerVars, pollVars >>

PushDigit(digit) ==
  /\ RemoteEvent(digit, pushDialDigit(RemoteState, digit))
  /\ UNCHANGED remoteSocketOpen

DialTimeout ==
  \E value \in PendingDialTimers :
    RemoteEvent(TimeoutEvent, DialTimerFires(RemoteState, value))
  /\ UNCHANGED remoteSocketOpen

RemoteSocketOpens ==
  /\ ~remoteSocketOpen
  /\ RemoteEvent(SocketEvent, RemoteState)
  /\ remoteSocketOpen' = TRUE

RemoteSocketCloses ==
  /\ remoteSocketOpen
  /\ RemoteEvent(SocketEvent, RemoteState)
  /\ remoteSocketOpen' = FALSE

NextRemote ==
  \/ \E digit \in DialDigits : PushDigit(digit)
  \/ DialTimeout
  \/ RemoteSocketOpens
  \/ RemoteSocketCloses

InitDisplayIdle ==
  /\ \E mounted \in {MountState(IndexMixed, 0, 0)} : DisplayStateIs(mounted)
  /\ lastOp = Op("mount")

RemoteInit == InitDisplayIdle /\ InitRemoteIdle /\ InitPreloadOff /\ InitLibIdle /\ InitPacerIdle /\ InitPollIdle /\ InitNetIdle

SpecRemote == RemoteInit /\ [][NextRemote]_vars

\* ------------------------------------------------------------------------
\* App.tsx : the dial of a remote with its handlers and its renders apart.
\* A handler only queues its updates of dialBuffer (setDialBuffer); the
\* queue is applied in order at the next render, and the dial buffer effect
\* runs after a render that changed dialBuffer. A commit timer holds the
\* buffer of the render that armed it.
\* ------------------------------------------------------------------------
RenderEvent == 12
ClearUpdate == NULL

\* pushDialDigit as the click handler runs it: the updater is queued.
queueDialDigit(rs, digit) ==
  [rs EXCEPT !.dialUpdates = Append(@, digit)]

\* The queued updates applied in order: setDialBuffer("") and the updater
\* (prev) => `${prev}${digit}`.slice(-3).
RECURSIVE applyDialUpdates(_, _)
applyDialUpdates(buffer, updates) ==
  IF updates = <<>> THEN buffer
  ELSE applyDialUpdates(IF Head(updates) = ClearUpdate THEN <<>>
                        ELSE SliceLast3(Append(buffer, Head(updates))),
                        Tail(updates))

\* commitDial as a callback runs it: the two sends, and setDialBuffer("")
\* queued for the next render.
commitDialQueued(rs, value) ==
  IF value = <<>> THEN rs
  ELSE [commitDial(rs, value) EXCEPT !.dialBuffer = rs.dialBuffer,
                                     !.dialUpdates = Append(@, ClearUpdate)]

\* The dial buffer effect after a render of rs.dialBuffer.
DialEffectQueued(rs) ==
  LET cleared == [rs EXCEPT !.dialTimeoutRef = NoTimer] IN
  IF rs.dialBuffer = <<>> THEN cleared
  ELSE
    LET announced == remoteSend(cleared, DialMessage(rs.dialBuffer, FALSE)) IN
    IF Len(rs.dialBuffer) >= 3
    THEN commitDialQueued(announced, rs.dialBuffer)
    ELSE ArmDialTimer(announced, rs.dialBuffer)

\* A render: the queue is applied, and the effect runs when dialBuffer
\* changed.
renderDial(rs) ==
  LET next == applyDialUpdates(rs.dialBuffer, rs.dialUpdates)
      rendered == [rs EXCEPT !.dialBuffer = next, !.dialUpdates = <<>>]
  IN IF next = rs.dialBuffer THEN rendered ELSE DialEffectQueued(rendered)

\* The callback of window.setTimeout(() => commitDial(dialBuffer), 700).
DialTimerFiresQueued(rs, value) ==
  commitDialQueued([rs EXCEPT !.dialTimeoutRef = NoTimer], value)

PushDigitQueued(digit) ==
  /\ RemoteEvent(digit, queueDialDigit(RemoteState, digit))
  /\ UNCHANGED remoteSocketOpen

DialRender ==
  /\ dialUpdates # <<>>
  /\ RemoteEvent(RenderEvent, renderDial(RemoteState))
  /\ UNCHANGED remoteSocketOpen

DialTimeoutQueued ==
  /\ dialTimeoutRef # NoTimer
  /\ RemoteEvent(TimeoutEvent, DialTimerFiresQueued(RemoteState, dialTimeoutRef))
  /\ UNCHANGED remoteSocketOpen

NextDial ==
  \/ \E digit \in DialDigits : PushDigitQueued(digit)
  \/ DialRender
  \/ DialTimeoutQueued

InitRemoteOpen ==
  /\ dialBuffer = <<>>
  /\ dialTimeoutRef = NoTimer
  /\ remoteGodmodeOpen = FALSE
  /\ remoteSocketOpen = TRUE
  /\ remoteSent = <<>>
  /\ dialEvents = <<>>
  /\ staleDialTimers = {}
  /\ dialUpdates = <<>>

DialInit == InitDisplayIdle /\ InitRemoteOpen /\ InitPreloadOff /\ InitLibIdle /\ InitPacerIdle /\ InitPollIdle /\ InitNetIdle

SpecDial == DialInit /\ [][NextDial]_vars

\* ------------------------------------------------------------------------
\* hooks/usePreloadManager.ts
\* ------------------------------------------------------------------------
\* The refs and state of the hook as one record.  preloadCache is the Map in
\* insertion order; an element is named by the number of its creation;
\* preloadTimerRef and neighborTimer hold what the pending timer captured.
PreloadState ==
  [preloadCache |-> preloadCache, previewAttachedRef |-> previewAttachedRef,
   preloadUrl |-> preloadUrl, preloadTimerRef |-> preloadTimerRef,
   neighborTimer |-> neighborTimer, elementCount |-> elementCount,
   pendingLoads |-> pendingLoads, parentElement |-> parentElement,
   elementSrc |-> elementSrc,
   stalePreloadTimers |-> stalePreloadTimers]

SetPreloadState(ps) ==
  /\ preloadCache' = ps.preloadCache
  /\ previewAttachedRef' = ps.previewAttachedRef
  /\ preloadUrl' = ps.preloadUrl
  /\ preloadTimerRef' = ps.preloadTimerRef
  /\ neighborTimer' = ps.neighborTimer
  /\ elementCount' = ps.elementCount
  /\ pendingLoads' = ps.pendingLoads
  /\ parentElement' = ps.parentElement
  /\ elementSrc' = ps.elementSrc
  /\ stalePreloadTimers' = ps.stalePreloadTimers

PreloadEntry(url, kind, element, lastUsed) ==
  [url |-> url, kind |-> kind, status |-> "loading", element |-> element,
   lastUsed |-> lastUsed]

shouldPreload(kind) ==
  IF PRELOAD_MODE = "all" THEN TRUE
  ELSE IF PRELOAD_MODE = "image" THEN kind = "image"
  ELSE FALSE

\* cache.get(url): the position of the entry of url, 0 when there is none.
CacheGetNothing(cache, url) == 0

\* A lookup that does not find a failed entry.
CacheGetSkippingFailed(cache, url) ==
  LET found == {i \in 1..Len(cache) :
                  cache[i].url = url /\ cache[i].status # "error"}
  IN IF found = {} THEN 0 ELSE SetMin(found)

CacheGet(cache, url) ==
  LET found == {i \in 1..Len(cache) : cache[i].url = url}
  IN IF found = {} THEN 0 ELSE SetMin(found)

\* Array.from(cache.values()).sort((a, b) => a.lastUsed - b.lastUsed): the
\* number of entries sorted before entry i (the sort is stable).
SortRank(cache, i) ==
  Cardinality({j \in 1..Len(cache) :
                 \/ cache[j].lastUsed < cache[i].lastUsed
                 \/ cache[j].lastUsed = cache[i].lastUsed /\ j < i})

KeepAt(cache, kept) ==
  LET RECURSIVE Build(_)
      Build(i) == IF i > Len(cache) THEN <<>>
                  ELSE IF i \in kept THEN <<cache[i]>> \o Build(i + 1)
                  ELSE Build(i + 1)
  IN Build(1)

\* A sweep that removes expired entries only.
pruneExpiredOnly(cache) ==
  KeepAt(cache, {i \in 1..Len(cache) :
                   ~(nowTs - cache[i].lastUsed > PRELOAD_CACHE_TTL_MS)})

\* A sweep that skips the expiry loop and only trims the overflow.
pruneOverflowOnly(cache) ==
  IF Len(cache) <= PRELOAD_CACHE_LIMIT THEN cache
  ELSE LET overflow == Len(cache) - PRELOAD_CACHE_LIMIT
       IN KeepAt(cache, {i \in 1..Len(cache) : SortRank(cache, i) >= overflow})

\* A sweep that trims the overflow in insertion order instead of sorting by
\* lastUsed.
pruneFirstInserted(cache) ==
  LET fresh == KeepAt(cache, {i \in 1..Len(cache) :
                   ~(nowTs - cache[i].lastUsed > PRELOAD_CACHE_TTL_MS)})
  IN IF Len(fresh) <= PRELOAD_CACHE_LIMIT THEN fresh
     ELSE LET overflow == Len(fresh) - PRELOAD_CACHE_LIMIT
          IN KeepAt(fresh, {i \in 1..Len(fresh) : i > overflow})

prunePreloadCache(cache) ==
  LET fresh == KeepAt(cache, {i \in 1..Len(cache) :
                   ~(nowTs - cache[i].lastUsed > PRELOAD_CACHE_TTL_MS)})
  IN IF Len(fresh) <= PRELOAD_CACHE_LIMIT THEN fresh
     ELSE LET overflow == Len(fresh) - PRELOAD_CACHE_LIMIT
          IN KeepAt(fresh, {i \in 1..Len(fresh) : SortRank(fresh, i) >= overflow})

\* container.appendChild(element) puts a new element into the off-screen
\* container; entry.element.remove() of the sweep takes the element of every
\* deleted entry out of whatever holds it.
Removed(parents, before, swept) ==
  [e \in 1..Len(parents) |->
     IF /\ \E i \in 1..Len(before) : before[i].element = e
        /\ ~\E i \in 1..Len(swept) : swept[i].element = e
     THEN "none"
     ELSE parents[e]]

queuePreload(ps, url) ==
  IF url = NoUrl THEN ps
  ELSE
    LET kind == getMediaKind(url) IN
    IF ~shouldPreload(kind) THEN ps
    ELSE
      LET existing == CacheGet(ps.preloadCache, url) IN
      IF existing # 0
      THEN [ps EXCEPT !.preloadCache[existing].lastUsed = nowTs]
      ELSE
        LET element == ps.elementCount + 1
            entry == PreloadEntry(url, kind, element, nowTs)
            before == Append(ps.preloadCache, entry)
            swept == prunePreloadCache(before)
        IN [ps EXCEPT
              !.preloadCache = swept,
              !.elementCount = element,
              !.pendingLoads = @ \cup {element},
              !.parentElement = Removed(Append(@, "cache"), before, swept),
              !.elementSrc = Append(@, url)]

RECURSIVE queuePreloadEach(_, _)
queuePreloadEach(ps, urls) ==
  IF urls = <<>> THEN ps
  ELSE queuePreloadEach(queuePreload(ps, Head(urls)), Tail(urls))

\* The effect on [selectedProgramUrl, preloadTick]: the ready, non-audio
\* entry of the selected program is the live preview; otherwise nothing is.
\* cacheContainer.appendChild(previewAttachedRef.current);
\* previewAttachedRef.current = null
Detach(ps) ==
  IF ps.previewAttachedRef = NULL THEN ps
  ELSE [ps EXCEPT !.parentElement[ps.previewAttachedRef] = "cache",
                  !.previewAttachedRef = NULL]

\* An attach that leaves the element attached before where it is.
AttachWithoutDetach(ps, readyElement) ==
  [ps EXCEPT !.parentElement[readyElement] = "mount",
             !.previewAttachedRef = readyElement]

\* The ready branch: the element attached before, if another one, goes back
\* to the off-screen container, then container.appendChild(readyElement).
Attach(ps, readyElement) ==
  LET returned ==
        IF ps.previewAttachedRef # NULL /\ ps.previewAttachedRef # readyElement
        THEN [ps EXCEPT !.parentElement[ps.previewAttachedRef] = "cache"]
        ELSE ps
  IN [returned EXCEPT !.parentElement[readyElement] = "mount",
                      !.previewAttachedRef = readyElement]

AttachEffect(r, ps) ==
  IF PRELOAD_MODE # "all" THEN Detach(ps)
  ELSE
    LET currentUrl == selectedProgramUrlOf(r)
        cacheEntry == IF currentUrl = NoUrl THEN 0
                      ELSE CacheGet(ps.preloadCache, currentUrl)
        ready == /\ cacheEntry # 0
                 /\ ps.preloadCache[cacheEntry].status = "ready"
                 /\ ps.preloadCache[cacheEntry].kind # "audio"
    IN IF ready
       THEN Attach(ps, ps.preloadCache[cacheEntry].element)
       ELSE Detach(ps)

\* program?.url of the neighbour row: the slot covering the current slot,
\* else the first one.
NeighborUrl(r, row) ==
  LET channel == channelsOf(r)[row + 1]
      covering == {i \in 1..Len(channel.schedule) :
                     /\ r.currentSlotIndex >= channel.schedule[i].start
                     /\ r.currentSlotIndex <= channel.schedule[i].end}
  IN IF covering # {} THEN channel.schedule[SetMin(covering)].url
     ELSE IF Len(channel.schedule) > 0 THEN channel.schedule[1].url
     ELSE NoUrl

NeighborUrls(r) ==
  LET length == Len(channelsOf(r))
      baseIndex == IF r.playerChannelIndex # NULL THEN r.playerChannelIndex
                   ELSE clamp(r.selectedRow, 0, SetMax({0, length - 1}))
      all == << NeighborUrl(r, (baseIndex - 1 + length) % length),
                NeighborUrl(r, (baseIndex + 1) % length) >>
      Keep(index) == /\ all[index] # NoUrl
                     /\ all[index] # r.playerUrl
                     /\ \A j \in 1..(index - 1) : all[j] # all[index]
  IN IF Keep(1) /\ Keep(2) THEN all
     ELSE IF Keep(1) THEN <<all[1]>>
     ELSE IF Keep(2) THEN <<all[2]>>
     ELSE <<>>

\* The effect on the player: its cleanup clears the pending timer, then the
\* neighbours' urls are captured by a new PRELOAD_AFTER_PLAY_MS timer.
NeighborEffect(r, ps) ==
  LET cleared == [ps EXCEPT !.neighborTimer = <<>>] IN
  IF ~r.playerOpen \/ r.playerUrl = NoUrl THEN cleared
  ELSE IF Len(channelsOf(r)) = 0 THEN cleared
  ELSE IF PRELOAD_MODE # "all" THEN cleared
  ELSE [cleared EXCEPT !.neighborTimer = NeighborUrls(r)]

\* preloadTimerRef.current = window.setTimeout(...)
ArmPreloadTimer(ps, url) ==
  [ps EXCEPT !.stalePreloadTimers = IF ps.preloadTimerRef # NoUrl
                                    THEN @ \cup {ps.preloadTimerRef} ELSE @,
             !.preloadTimerRef = url]

\* The effect on [playerOpen, selectedProgramUrl]: its cleanup clears the
\* pending timer, then the selected url is captured by a new
\* PRELOAD_DEBOUNCE_MS timer.
DebounceEffect(r, ps) ==
  LET cleared == [ps EXCEPT !.preloadTimerRef = NoUrl]
      url == selectedProgramUrlOf(r)
  IN IF r.playerOpen THEN cleared
     ELSE IF url = NoUrl THEN [cleared EXCEPT !.preloadUrl = NoUrl]
     ELSE IF ~shouldPreload(getMediaKind(url))
     THEN [cleared EXCEPT !.preloadUrl = NoUrl]
     ELSE ArmPreloadTimer(cleared, url)

\* The effect on [preloadUrl, playerOpen, playerUrl]: setPlayerUrl(preloadUrl).
PreloadUrlEffect(s, ps) ==
  IF ps.preloadUrl = NoUrl \/ s.playerOpen THEN s
  ELSE IF PRELOAD_MODE # "all" THEN s
  ELSE IF ps.preloadUrl = s.playerUrl THEN s
  ELSE [s EXCEPT !.playerUrl = ps.preloadUrl]

\* The hook's effects after a render of r that followed a render of p, in
\* the order of their declaration.
PreloadEffects(p, r, ps, mount) ==
  LET ps1 == IF mount \/ selectedProgramUrlOf(p) # selectedProgramUrlOf(r)
             THEN AttachEffect(r, ps) ELSE ps
      ps2 == IF \/ mount
                \/ p.playerOpen # r.playerOpen
                \/ p.playerUrl # r.playerUrl
                \/ p.playerChannelIndex # r.playerChannelIndex
                \/ p.selectedRow # r.selectedRow
                \/ p.currentSlotIndex # r.currentSlotIndex
             THEN NeighborEffect(r, ps1) ELSE ps1
      ps3 == IF \/ mount
                \/ p.playerOpen # r.playerOpen
                \/ selectedProgramUrlOf(p) # selectedProgramUrlOf(r)
             THEN DebounceEffect(r, ps2) ELSE ps2
  IN ps3

\* The renders after an event of the display: p was rendered before it, r
\* right after it, ps is the hook's state at that moment.  Every effect reads
\* the state of the render it belongs to, so the effect on preloadUrl reads
\* the preloadUrl rendered, not the one the debounce effect has just set.
\* (The display's own effects change the selection only when the current slot
\* or the index changes; they are settled in r.)
PreloadAfterRender(p, r, ps) ==
  LET Third(r1, ps2, r2) ==
        [display |-> r2,
         preload |-> IF r2.playerUrl # r1.playerUrl
                     THEN NeighborEffect(r2, ps2) ELSE ps2]
      Second(ps1, r1, ps2) ==
        Third(r1, ps2,
              IF ps1.preloadUrl # ps.preloadUrl \/ r1.playerUrl # r.playerUrl
              THEN PreloadUrlEffect(r1, ps2) ELSE r1)
      First(ps1, r1) ==
        Second(ps1, r1,
               IF r1.playerUrl # r.playerUrl
               THEN NeighborEffect(r1, ps1) ELSE ps1)
  IN First(PreloadEffects(p, r, ps, FALSE),
           IF p.playerOpen # r.playerOpen \/ p.playerUrl # r.playerUrl
           THEN PreloadUrlEffect(r, ps) ELSE r)

\* The 30 s between two readings of the clock, so that an entry is expired
\* (older than PRELOAD_CACHE_TTL_MS) two readings after its last use.
ClockStepMs == 30001

PreloadModes == {"none", "image", "all"}

PreloadIdle ==
  [preloadCache |-> <<>>, previewAttachedRef |-> NULL, preloadUrl |-> NoUrl,
   preloadTimerRef |-> NoUrl, neighborTimer |-> <<>>, elementCount |-> 0,
   pendingLoads |-> {}, parentElement |-> <<>>, elementSrc |-> <<>>,
   stalePreloadTimers |-> {}]

PreloadStateIs(ps) ==
  /\ preloadCache = ps.preloadCache
  /\ previewAttachedRef = ps.previewAttachedRef
  /\ preloadUrl = ps.preloadUrl
  /\ preloadTimerRef = ps.preloadTimerRef
  /\ neighborTimer = ps.neighborTimer
  /\ elementCount = ps.elementCount
  /\ pendingLoads = ps.pendingLoads
  /\ parentElement = ps.parentElement
  /\ elementSrc = ps.elementSrc
  /\ stalePreloadTimers = ps.stalePreloadTimers

InitPreload ==
  /\ PRELOAD_MODE \in PreloadModes
  /\ nowTs = 0
  /\ lastOp = Op("mount")
  /\ \E mounted \in {MountState(IndexMedia, 0, 0)} :
       /\ DisplayStateIs(mounted)
       /\ \E ps \in {PreloadEffects(mounted, mounted, PreloadIdle, TRUE)} :
            PreloadStateIs(ps)

\* An event of the display together with the hook's effects.  The messages
\* the display sends are not followed here.
PreloadEvent(op, s) ==
  \E p \in {DisplayState}, ps \in {PreloadState}, after \in {AfterEvent(s)} :
    \E out \in {PreloadAfterRender(p, after, ps)} :
      \E d \in {[out.display EXCEPT !.sent = <<>>]} :
        /\ SetDisplayState(d)
        /\ SetPreloadState(out.preload)
        /\ lastOp' = op
        /\ UNCHANGED << PRELOAD_MODE, nowTs, remoteVars, libVars, netVars, pacerVars, pollVars >>

NavPreloading(dir) ==
  PreloadEvent(Op("display"), moveSelection(DisplayState, DisplayState, dir))

SelectPreloading ==
  PreloadEvent(Op("display"), handleSelect(DisplayState, DisplayState))

StepChannelPreloading(dir) ==
  /\ playerOpen
  /\ PreloadEvent(Op("display"),
                  handleChannelChange(DisplayState, DisplayState, dir))

ClosePlayerPreloading ==
  /\ playerOpen
  /\ PreloadEvent(Op("display"), closePlayer(DisplayState, DisplayState))

\* A timer or callback of the hook: d and ps are what it made of the state.
PreloadStep(op, d, ps) ==
  \E display \in {d}, preload \in {ps} :
    /\ preload.elementCount <= MaxElements
    /\ SetDisplayState(display)
    /\ SetPreloadState(preload)
    /\ lastOp' = op
    /\ UNCHANGED << PRELOAD_MODE, nowTs, remoteVars, libVars, netVars, pacerVars, pollVars >>

\* The debounce timers that are pending.
PendingPreloadTimers ==
  stalePreloadTimers \cup (IF preloadTimerRef # NoUrl THEN {preloadTimerRef} ELSE {})

\* A debounce timer fires: setPreloadUrl(url); queuePreload(url).
DebounceTimerFires ==
  \E url \in PendingPreloadTimers :
     LET fired == IF url = preloadTimerRef
                  THEN [PreloadState EXCEPT !.preloadTimerRef = NoUrl]
                  ELSE [PreloadState EXCEPT !.stalePreloadTimers = @ \ {url}]
         ps1 == queuePreload([fired EXCEPT !.preloadUrl = url], url)
         d1 == PreloadUrlEffect(DisplayState, ps1)
         ps2 == IF d1.playerUrl # playerUrl THEN NeighborEffect(d1, ps1) ELSE ps1
     IN PreloadStep([Op("debounce") EXCEPT !.urls = <<url>>], d1, ps2)

\* The timer armed while a program plays fires: queuePreload of each
\* neighbour url.
NeighborTimerFires ==
  /\ neighborTimer # <<>>
  /\ PreloadStep([Op("neighbor") EXCEPT !.urls = neighborTimer], DisplayState,
                 queuePreloadEach([PreloadState EXCEPT !.neighborTimer = <<>>],
                                  neighborTimer))

\* onload/onloadeddata/oncanplaythrough of an element: its entry, if still
\* cached, is ready; preloadTick makes the attach effect run.
\* A load callback that looks its entry up in the cache by url.
EntryReadyByUrl(cache, element) ==
  [i \in 1..Len(cache) |->
     IF cache[i].url = elementSrc[element]
     THEN [cache[i] EXCEPT !.status = "ready", !.lastUsed = nowTs]
     ELSE cache[i]]

EntryReady(cache, element) ==
  [i \in 1..Len(cache) |->
     IF cache[i].element = element
     THEN [cache[i] EXCEPT !.status = "ready", !.lastUsed = nowTs]
     ELSE cache[i]]

EntryError(cache, element) ==
  [i \in 1..Len(cache) |->
     IF cache[i].element = element
     THEN [cache[i] EXCEPT !.status = "error"]
     ELSE cache[i]]

ElementLoads(element) ==
  /\ element \in pendingLoads
  /\ PreloadStep([Op("load") EXCEPT !.element = element], DisplayState,
                 AttachEffect(DisplayState,
                   [PreloadState EXCEPT
                      !.preloadCache = EntryReady(@, element),
                      !.pendingLoads = @ \ {element}]))

ElementFails(element) ==
  /\ element \in pendingLoads
  /\ PreloadStep([Op("error") EXCEPT !.element = element], DisplayState,
                 AttachEffect(DisplayState,
                   [PreloadState EXCEPT
                      !.preloadCache = EntryError(@, element),
                      !.pendingLoads = @ \ {element}]))

\* Date.now() moves on.
ClockAdvances ==
  /\ nowTs < MaxClockTicks * ClockStepMs
  /\ nowTs' = nowTs + ClockStepMs
  /\ lastOp' = Op("clock")
  /\ UNCHANGED << PRELOAD_MODE, preloadCache, previewAttachedRef, preloadUrl,
                  preloadTimerRef, neighborTimer, elementCount, pendingLoads,
                  parentElement, elementSrc, stalePreloadTimers,
                  remoteVars, libVars, netVars, pacerVars, pollVars >>
  /\ SetDisplayState(DisplayState)

NextPreload ==
  \/ \E dir \in {"up", "down"} : NavPreloading(dir)
  \/ SelectPreloading
  \/ \E dir \in {"up", "down"} : StepChannelPreloading(dir)
  \/ ClosePlayerPreloading
  \/ DebounceTimerFires
  \/ NeighborTimerFires
  \/ \E element \in 1..MaxElements : ElementLoads(element)
  \/ \E element \in 1..MaxElements : ElementFails(element)

\* The hook under the events of the display, at one reading of the clock.
PreloadInit == InitPreload /\ InitRemoteIdle /\ InitLibIdle /\ InitPacerIdle /\ InitPollIdle /\ InitNetIdle

SpecPreload == PreloadInit /\ [][NextPreload]_vars

\* A remote dialling and a display browsing side by side, each with its
\* timer.
MaxTimerDials == 3

NextTimers ==
  \/ Len(dialEvents) < MaxTimerDials /\ \E digit \in DialDigits : PushDigit(digit)
  \/ Len(dialEvents) < MaxTimerDials /\ DialTimeout
  \/ \E dir \in {"up", "down"} : NavPreloading(dir)
  \/ SelectPreloading
  \/ ClosePlayerPreloading
  \/ DebounceTimerFires

SpecTimers == PreloadInit /\ [][NextTimers]_vars

\* The cache alone, over time.  Every row of the guide can be selected and
\* every playable channel can be played (SpecPreload follows the display
\* there), so the debounce timer fires for the url of any program that
\* shouldPreload accepts and the neighbour timer for the neighbours of any
\* playing channel.
DebouncedUrls ==
  {url \in {ProgramAt(channels[row], currentSlotIndex).url :
              row \in 1..Len(channels)} :
     url # NoUrl /\ shouldPreload(getMediaKind(url))}

PlayingAt(row) ==
  [DisplayState EXCEPT
     !.playerOpen = TRUE,
     !.playerUrl = ProgramAt(channels[row + 1], currentSlotIndex).url,
     !.playerChannelIndex = row,
     !.selectedRow = row]

DebounceQueues(url) ==
  /\ url \in DebouncedUrls
  /\ PreloadStep([Op("debounce") EXCEPT !.urls = <<url>>], DisplayState,
                 queuePreload(PreloadState, url))

NeighborsQueue(row) ==
  /\ PlayingAt(row).playerUrl # NoUrl
  /\ NeighborEffect(PlayingAt(row), PreloadState).neighborTimer # <<>>
  /\ PreloadStep([Op("neighbor") EXCEPT
                    !.urls = NeighborEffect(PlayingAt(row), PreloadState).neighborTimer],
                 DisplayState,
                 queuePreloadEach(PreloadState,
                   NeighborEffect(PlayingAt(row), PreloadState).neighborTimer))

CacheElementLoads(element) ==
  /\ element \in pendingLoads
  /\ PreloadStep([Op("load") EXCEPT !.element = element], DisplayState,
                 [PreloadState EXCEPT
                    !.preloadCache = EntryReady(@, element),
                    !.pendingLoads = @ \ {element}])

CacheElementFails(element) ==
  /\ element \in pendingLoads
  /\ PreloadStep([Op("error") EXCEPT !.element = element], DisplayState,
                 [PreloadState EXCEPT
                    !.preloadCache = EntryError(@, element),
                    !.pendingLoads = @ \ {element}])

NextCache ==
  \/ \E url \in {"a.png", "/art?appId=art", "c.mp4"} : DebounceQueues(url)
  \/ \E row \in 0..(Len(channels) - 1) : NeighborsQueue(row)
  \/ \E element \in 1..MaxElements : CacheElementLoads(element)
  \/ \E element \in 1..MaxElements : CacheElementFails(element)
  \/ ClockAdvances

InitCache ==
  /\ PRELOAD_MODE \in PreloadModes
  /\ nowTs = 0
  /\ \E mounted \in {MountState(IndexMedia, 0, 0)} : DisplayStateIs(mounted)
  /\ lastOp = Op("mount")
  /\ PreloadStateIs(PreloadIdle)

CacheInit == InitCache /\ InitRemoteIdle /\ InitLibIdle /\ InitPacerIdle /\ InitPollIdle /\ InitNetIdle

SpecCache == CacheInit /\ [][NextCache]_vars

\* ------------------------------------------------------------------------
\* Properties of the display
\* ------------------------------------------------------------------------
NowsIn(messages) == SelectSeq(messages, LAMBDA m : m.type = "now")

ReservedNumbers == {26, 67}

\* First channel of the index (hidden ones included) whose number reads as n.
NumericMatches(n) ==
  {i \in 1..Len(indexData.channels) :
     LET number == normalizeChannelNumber(indexData.channels[i].number)
     IN number # NULL /\ number = n}

\* C6: channel(down) from the last visible channel selects the first and
\* channel(up) from the first selects the last (every other step moves by
\* one), and after a channel step the selected channel is a visible one,
\* never a hidden system channel.
C6_CyclicVisibleStepping ==
  [][ lastOp'.type = "channel" =>
        /\ selectedRow' \in 0..(Len(channels') - 1)
        /\ ~isHiddenChannel(channels'[selectedRow' + 1])
        /\ channels'[selectedRow' + 1].id \notin {DEBUG_CHANNEL_ID, GODMODE_CHANNEL_ID}
        /\ normalizeChannelNumber(channels'[selectedRow' + 1].number)
             \notin ReservedNumbers
        /\ (lastOp'.dir = "down" =>
              selectedRow' = IF selectedRow = Len(channels) - 1
                             THEN 0 ELSE selectedRow + 1)
        /\ (lastOp'.dir = "up" =>
              selectedRow' = IF selectedRow = 0
                             THEN Len(channels) - 1 ELSE selectedRow - 1) ]_vars

\* A channel(down) step has wrapped from the last of four visible channels
\* to the first.
C6_Witness ==
  /\ lastOp.type = "channel" /\ lastOp.dir = "down"
  /\ Len(channels) = 4 /\ selectedRow = 0

\* C7: a tune whose number does not parse, or parses to a number that no
\* channel carries and that is not reserved, changes neither selectedRow,
\* selectedCol, playerOpen nor playerUrl and sends no now message.
TuneMisses(number) ==
  LET n == normalizeChannelNumber(number)
  IN \/ n = NULL
     \/ n \notin ReservedNumbers /\ NumericMatches(n) = {}

C7_TuneMissIsNoOp ==
  [][ (lastOp'.type = "tune" /\ TuneMisses(lastOp'.number)) =>
        /\ selectedRow' = selectedRow
        /\ selectedCol' = selectedCol
        /\ playerOpen' = playerOpen
        /\ playerUrl' = playerUrl
        /\ NowsIn(sent') = <<>> ]_vars

\* A tune to channel 4, which no channel carries, was handled while the
\* player was open.
C7_Witness ==
  /\ lastOp.type = "tune" /\ lastOp.number = <<4>>
  /\ playerOpen /\ sent = <<>>

\* The program of channel covering the current slot.
CurrentProgramUrl(channel) ==
  LET covering == {i \in 1..Len(channel.schedule) :
                     channel.schedule[i].start <= currentSlotIndex
                     /\ currentSlotIndex <= channel.schedule[i].end}
  IN IF covering = {} THEN NoUrl
     ELSE channel.schedule[SetMin(covering)].url

TuneResolves(number) ==
  LET n == normalizeChannelNumber(number)
  IN n # NULL /\ n \notin ReservedNumbers /\ NumericMatches(n) # {}

TuneTargetOf(number) ==
  indexData.channels[SetMin(NumericMatches(normalizeChannelNumber(number)))]

TuneOpensOrCloses(target) ==
  IF CurrentProgramUrl(target) # NoUrl
  THEN playerOpen' /\ playerUrl' = CurrentProgramUrl(target)
  ELSE ~playerOpen'

\* C8 as claimed: every resolved tune selects the matched channel, hidden
\* system channels included.
C8_TuneSelectsEveryMatch ==
  [][ (lastOp'.type = "tune" /\ TuneResolves(lastOp'.number)) =>
        LET target == TuneTargetOf(lastOp'.number) IN
        /\ selectedRow' \in 0..(Len(channels') - 1)
        /\ channels'[selectedRow' + 1].id = target.id
        /\ selectedCol' = currentSlotIndex
        /\ TuneOpensOrCloses(target) ]_vars

\* C8 (amended): a tune resolves its target by numeric match (leading zeros
\* ignored) against all channels, hidden ones included, and opens the
\* target's program of the current slot when it has a url, else closes the
\* player; it selects the target (selectedRow at it, selectedCol = current
\* slot) when the target is a visible channel and leaves the selection
\* unchanged when the target is hidden.
C8_TuneResolution ==
  [][ (lastOp'.type = "tune" /\ TuneResolves(lastOp'.number)) =>
        LET target == TuneTargetOf(lastOp'.number) IN
        /\ TuneOpensOrCloses(target)
        /\ IF isHiddenChannel(target)
           THEN selectedRow' = selectedRow /\ selectedCol' = selectedCol
           ELSE /\ selectedRow' \in 0..(Len(channels') - 1)
                /\ channels'[selectedRow' + 1].id = target.id
                /\ selectedCol' = currentSlotIndex ]_vars

\* tune("1") has selected channel "001" and opened its current program.
C8_Witness ==
  /\ lastOp.type = "tune" /\ lastOp.number = <<1>>
  /\ channels[selectedRow + 1].number = <<0, 0, 1>>
  /\ selectedCol = currentSlotIndex
  /\ playerOpen /\ playerUrl = "a.png"

\* C9: a tune whose number parses to 67 or 26 closes the player, leaves
\* selectedRow, selectedCol and playerUrl unchanged and sends exactly one now,
\* naming the pseudo-channel (godmode/"067", debug/"026"), whatever channels
\* the index holds for that number.
C9_ReservedNumbers ==
  [][ (lastOp'.type = "tune"
       /\ normalizeChannelNumber(lastOp'.number) \in ReservedNumbers) =>
        /\ ~playerOpen'
        /\ playerUrl' = playerUrl
        /\ selectedRow' = selectedRow
        /\ selectedCol' = selectedCol
        /\ Len(NowsIn(sent')) = 1
        /\ LET now == NowsIn(sent')[1] IN
           IF normalizeChannelNumber(lastOp'.number) = 67
           THEN /\ now.channelId = GODMODE_CHANNEL_ID
                /\ now.number = GODMODE_CHANNEL_NUMBER
                /\ now.url = NoUrl
           ELSE /\ now.channelId = DEBUG_CHANNEL_ID
                /\ now.number = DEBUG_CHANNEL_NUMBER
                /\ now.url = NoUrl ]_vars

\* tune("67") was handled on an index that holds a playable channel numbered
\* 67, while another program was playing: the now names god mode.
C9_Witness ==
  /\ lastOp.type = "tune" /\ lastOp.number = <<6, 7>>
  /\ \E i \in 1..Len(indexData.channels) :
       /\ indexData.channels[i].number = <<6, 7>>
       /\ indexData.channels[i].schedule[1].url # NoUrl
  /\ ~playerOpen /\ playerUrl # NoUrl
  /\ Len(sent) >= 1 /\ sent[1].type = "now"
  /\ sent[1].channelId = GODMODE_CHANNEL_ID

\* C10: every tune that resolves (to a channel or to a pseudo-channel), every
\* channel step, and every select/godselect that opens a program hands
\* exactly one now message to send, carrying the id and number of the channel
\* that is live afterwards; steps and tunes that land on a channel with
\* nothing playable included.
GodselectOpens(channelId, url) ==
  /\ url # NoUrl
  /\ \E i \in 1..Len(channels) :
       /\ channels[i].id = channelId
       /\ \E j \in 1..Len(channels[i].schedule) :
            channels[i].schedule[j].url = url

SelectOpens ==
  /\ selectedRow \in 0..(Len(channels) - 1)
  /\ CurrentProgramUrl(channels[selectedRow + 1]) # NoUrl

OneNowNaming(channelId, number) ==
  /\ Len(NowsIn(sent')) = 1
  /\ NowsIn(sent')[1].channelId = channelId
  /\ NowsIn(sent')[1].number = number

C10_NowOnEveryChannelChange ==
  [][ /\ (lastOp'.type = "tune" /\ TuneResolves(lastOp'.number)) =>
           OneNowNaming(TuneTargetOf(lastOp'.number).id,
                        TuneTargetOf(lastOp'.number).number)
      /\ (lastOp'.type = "tune"
          /\ normalizeChannelNumber(lastOp'.number) = 67) =>
           OneNowNaming(GODMODE_CHANNEL_ID, GODMODE_CHANNEL_NUMBER)
      /\ (lastOp'.type = "tune"
          /\ normalizeChannelNumber(lastOp'.number) = 26) =>
           OneNowNaming(DEBUG_CHANNEL_ID, DEBUG_CHANNEL_NUMBER)
      /\ (lastOp'.type = "channel" /\ Len(channels) > 0) =>
           OneNowNaming(channels'[selectedRow' + 1].id,
                        channels'[selectedRow' + 1].number)
      /\ (lastOp'.type = "select" /\ SelectOpens) =>
           OneNowNaming(channels[selectedRow + 1].id,
                        channels[selectedRow + 1].number)
      /\ (lastOp'.type = "godselect"
          /\ GodselectOpens(lastOp'.channelId, lastOp'.url)) =>
           /\ OneNowNaming(lastOp'.channelId,
                           channels'[selectedRow' + 1].number)
           /\ channels'[selectedRow' + 1].id = lastOp'.channelId ]_vars

\* A channel step landed on a channel whose current program has no url: the
\* player is closed and the now names that channel.
C10_Witness ==
  /\ lastOp.type = "channel"
  /\ ~playerOpen
  /\ CurrentProgramUrl(channels[selectedRow + 1]) = NoUrl
  /\ \E i \in 1..Len(sent) :
       /\ sent[i].type = "now"
       /\ sent[i].channelId = channels[selectedRow + 1].id
       /\ sent[i].url = NoUrl

\* ------------------------------------------------------------------------
\* Properties of the dial
\* ------------------------------------------------------------------------
\* The digits pushed and the timer firings, without the socket events.
DialInputs == SelectSeq(dialEvents, LAMBDA e : e # SocketEvent)

CommittedDials ==
  SelectSeq(remoteSent, LAMBDA m : m.type = "dial" /\ m.committed)

Tunes == SelectSeq(remoteSent, LAMBDA m : m.type = "tune")

\* C4: after digit 6, digit 7 and then the commit timer firing, the remote
\* has emitted exactly one committed dial and exactly one tune, both with
\* value "67", and its dial buffer is empty; while 6 and 7 are being dialled
\* no tune (in particular none for "6") has been emitted.
C4_DialCommitByTimeout ==
  /\ DialInputs = <<6, 7, TimeoutEvent>> =>
       /\ Len(CommittedDials) = 1 /\ CommittedDials[1].value = <<6, 7>>
       /\ Len(Tunes) = 1 /\ Tunes[1].number = <<6, 7>>
       /\ dialBuffer = <<>>
       /\ dialTimeoutRef = NoTimer
  /\ DialInputs \in {<<6>>, <<6, 7>>} => Tunes = <<>> /\ CommittedDials = <<>>

\* 6 and 7 were pushed and the timer has fired.
C4_Witness ==
  /\ DialInputs = <<6, 7, TimeoutEvent>>
  /\ Len(Tunes) = 1

\* C5: the push that brings the dial buffer to 3 digits emits, in the same
\* step, the committed dial and the tune carrying the 3 digits, each exactly
\* once, leaves the buffer empty and leaves no commit timer pending.
C5_DialCommitAtThreeDigits ==
  [][ (/\ Len(dialBuffer) = 2
       /\ Len(dialEvents') = Len(dialEvents) + 1
       /\ dialEvents'[Len(dialEvents')] \in DialDigits) =>
        LET value == Append(dialBuffer, dialEvents'[Len(dialEvents')])
            emitted == SubSeq(remoteSent', Len(remoteSent) + 1, Len(remoteSent'))
            dials == SelectSeq(emitted, LAMBDA m : m.type = "dial" /\ m.committed)
            tunes == SelectSeq(emitted, LAMBDA m : m.type = "tune")
        IN /\ Len(dials) = 1 /\ dials[1].value = value
           /\ Len(tunes) = 1 /\ tunes[1].number = value
           /\ dialBuffer' = <<>>
           /\ dialTimeoutRef' = NoTimer ]_vars

\* 0, 2, 6 were pushed with no timer firing in between: "026" is committed
\* and tuned, nothing is pending.
C5_Witness ==
  /\ DialInputs = <<0, 2, 6>>
  /\ Len(Tunes) = 1 /\ Tunes[1].number = <<0, 2, 6>>
  /\ dialTimeoutRef = NoTimer

\* ------------------------------------------------------------------------
\* Properties of the preload cache
\* ------------------------------------------------------------------------
QueuedUrls == {"", "a.png", "b.png", "c.mp4", "d.mp3", "/art?appId=art"}

EntriesOf(cache, url) == {i \in 1..Len(cache) : cache[i].url = url}

\* C1: whenever a queuePreload call has returned the cache holds at most
\* PRELOAD_CACHE_LIMIT entries: in every state between two events, and after
\* one more call for any url from there.
C1_CacheSizeBound ==
  /\ Len(preloadCache) <= PRELOAD_CACHE_LIMIT
  /\ \A url \in QueuedUrls :
       Len(queuePreload(PreloadState, url).preloadCache) <= PRELOAD_CACHE_LIMIT

\* Three elements were created for three urls and a sweep has brought the
\* cache back to its limit.
C1_Witness ==
  /\ lastOp.type \in {"debounce", "neighbor"}
  /\ elementCount = 3
  /\ Len(preloadCache) = PRELOAD_CACHE_LIMIT
  /\ nowTs > 0

\* queuePreload(url) twice in a row from the current state: the second call
\* finds the entry of the first and changes nothing but its lastUsed.
TwiceInARow(url) ==
  LET once == queuePreload(PreloadState, url)
      twice == queuePreload(once, url)
      i == CacheGet(once.preloadCache, url)
  IN IF url = NoUrl \/ ~shouldPreload(getMediaKind(url))
     THEN twice = PreloadState
     ELSE /\ Cardinality(EntriesOf(twice.preloadCache, url)) = 1
          /\ twice.elementCount = once.elementCount
          /\ twice.pendingLoads = once.pendingLoads
          /\ i # 0
          /\ twice.preloadCache =
               [once.preloadCache EXCEPT ![i].lastUsed = nowTs]

\* C2: two queuePreload(url) in a row leave exactly one entry for url; a
\* queuePreload(url) for a url that is cached, whenever the entry was made,
\* creates no element and changes nothing of the cache but the lastUsed of
\* that entry, which becomes the time of the call; and the cache never holds
\* two entries for one url.
C2_PreloadIdempotent ==
  /\ [](\A url \in QueuedUrls :
          /\ TwiceInARow(url)
          /\ Cardinality(EntriesOf(preloadCache, url)) <= 1)
  /\ [][ lastOp'.type = "debounce" =>
           LET url == lastOp'.urls[1]
               i == CacheGet(preloadCache, url)
           IN /\ Cardinality(EntriesOf(preloadCache', url)) = 1
              /\ i # 0 =>
                   /\ preloadCache' = [preloadCache EXCEPT ![i].lastUsed = nowTs]
                   /\ elementCount' = elementCount
                   /\ pendingLoads' = pendingLoads
    ]_vars

\* The debounce timer has fired for a url whose entry was ready: the entry
\* is still the ready one, used now.
C2_Witness ==
  /\ lastOp.type = "debounce"
  /\ nowTs > 0
  /\ \E i \in EntriesOf(preloadCache, lastOp.urls[1]) :
       /\ preloadCache[i].status = "ready"
       /\ preloadCache[i].lastUsed = nowTs
  /\ Len(preloadCache) = 2

\* C3 as claimed: no step removes from the cache the entry whose element is
\* attached as the live preview, nor the entry of the url the open player
\* plays.
C3_EvictionSparesLiveMedia ==
  [][ \A i \in 1..Len(preloadCache) :
        (\/ preloadCache[i].element = previewAttachedRef
         \/ playerOpen /\ preloadCache[i].url = playerUrl)
        => \E j \in 1..Len(preloadCache') :
             preloadCache'[j].element = preloadCache[i].element ]_vars

\* ------------------------------------------------------------------------
\* lib/guide.ts : getCurrentSlotIndex
\* ------------------------------------------------------------------------
CharColon == 12
MsPerMinute == 60000

\* startTime.split(":")[k] ?? "" for k = 0, 1.
SplitColon(s, k) ==
  LET colons == {i \in 1..Len(s) : s[i] = CharColon}
      first == IF colons = {} THEN Len(s) + 1 ELSE SetMin(colons)
      later == {i \in colons : i > first}
      second == IF later = {} THEN Len(s) + 1 ELSE SetMin(later)
  IN IF k = 0 THEN SubSeq(s, 1, first - 1)
     ELSE IF colons = {} THEN <<>>
     ELSE SubSeq(s, first + 1, second - 1)

\* The index without the final clamp.
getCurrentSlotIndexUnclamped(now, startTime, slotMinutes, slotCount) ==
  LET startHour == parseInt(SplitColon(startTime, 0))
      startMinute == parseInt(SplitColon(startTime, 1))
  IN IF startHour = NaN \/ startMinute = NaN \/ slotMinutes <= 0 THEN 0
     ELSE (now - (startHour * 60 + startMinute) * MsPerMinute)
            \div (slotMinutes * MsPerMinute)

\* An instant on a slot boundary counted to the earlier slot.
getCurrentSlotIndexEarlier(now, startTime, slotMinutes, slotCount) ==
  LET startHour == parseInt(SplitColon(startTime, 0))
      startMinute == parseInt(SplitColon(startTime, 1))
  IN IF startHour = NaN \/ startMinute = NaN \/ slotMinutes <= 0 THEN 0
     ELSE clamp((now - 1 - (startHour * 60 + startMinute) * MsPerMinute)
                  \div (slotMinutes * MsPerMinute),
                0, SetMax({0, slotCount - 1}))

\* now and the start of the day's schedule are milliseconds since the local
\* midnight of now's day: start is new Date(now) after
\* setHours(startHour, startMinute, 0, 0).  Math.floor of the quotient is the
\* integer division, which rounds towards minus infinity.
getCurrentSlotIndex(now, startTime, slotMinutes, slotCount) ==
  LET startHour == parseInt(SplitColon(startTime, 0))
      startMinute == parseInt(SplitColon(startTime, 1))
  IN IF startHour = NaN \/ startMinute = NaN \/ slotMinutes <= 0 THEN 0
     ELSE clamp((now - (startHour * 60 + startMinute) * MsPerMinute)
                  \div (slotMinutes * MsPerMinute),
                0, SetMax({0, slotCount - 1}))

\* "16:00", "00:00", "16:30", "16" (no minutes), "x" and "16:x".
StartTimes ==
  { <<1, 6, CharColon, 0, 0>>, <<0, 0, CharColon, 0, 0>>,
    <<1, 6, CharColon, 3, 0>>, <<1, 6>>, <<CharX>>, <<1, 6, CharColon, CharX>> }

\* 00:00, 15:59:59.999, 16:00, 16:29:59.999, 16:30, 17:05, 19:00 and
\* 23:59:59.999 of one day.
Instants ==
  { 0, 57599999, 57600000, 59399999, 59400000, 61500000, 68400000, 86399999 }

CallGetCurrentSlotIndex ==
  /\ \E now \in Instants, startTime \in StartTimes,
        slotMinutes \in {0, 30, 60}, slotCount \in {0, 1, 6} :
       libCall' = [fn |-> "getCurrentSlotIndex", now |-> now,
                    startTime |-> startTime,
                    slotMinutes |-> slotMinutes, slotCount |-> slotCount,
                    result |-> getCurrentSlotIndex(now, startTime, slotMinutes,
                                                   slotCount)]
  /\ UNCHANGED << displayVars, remoteVars, preloadVars, netVars, pacerVars, pollVars >>

\* ------------------------------------------------------------------------
\* server : buildSchedule of index-builder-config.ts (manifests) and of
\* village-capture.ts (precomputed index).  A program is its duration in
\* slots (NULL when the manifest gives none); a slot of the schedule names
\* its program by position, NULL for an Off Air slot, which has no url.
\* ------------------------------------------------------------------------
ProgramSlot(start, span, program) ==
  [start |-> start, span |-> span, end |-> start + span - 1,
   program |-> program]

RECURSIVE OffAirFrom(_, _, _)
OffAirFrom(schedule, cursor, slotCount) ==
  IF cursor < slotCount
  THEN OffAirFrom(Append(schedule, ProgramSlot(cursor, 1, NULL)), cursor + 1,
                  slotCount)
  ELSE schedule

\* A walk that stays on the last program instead of starting over.
RECURSIVE ManifestLoopStaying(_, _, _, _, _)
ManifestLoopStaying(programs, slotCount, schedule, cursor, programIndex) ==
  IF cursor < slotCount
  THEN LET at == SetMin({programIndex, Len(programs) - 1})
           duration == IF programs[at + 1] = NULL THEN 1 ELSE programs[at + 1]
           span == SetMin({SetMax({1, duration}), slotCount - cursor})
       IN ManifestLoopStaying(programs, slotCount,
                              Append(schedule, ProgramSlot(cursor, span, at)),
                              cursor + span, programIndex + 1)
  ELSE schedule

RECURSIVE ManifestLoop(_, _, _, _, _)
ManifestLoop(programs, slotCount, schedule, cursor, programIndex) ==
  IF cursor < slotCount
  THEN LET at == programIndex % Len(programs)
           duration == IF programs[at + 1] = NULL THEN 1 ELSE programs[at + 1]
           span == SetMin({SetMax({1, duration}), slotCount - cursor})
       IN ManifestLoop(programs, slotCount,
                       Append(schedule, ProgramSlot(cursor, span, at)),
                       cursor + span, programIndex + 1)
  ELSE schedule

buildSchedule(programs, slotCount) ==
  IF Len(programs) = 0 THEN OffAirFrom(<<>>, 0, slotCount)
  ELSE ManifestLoop(programs, slotCount, <<>>, 0, 0)

RECURSIVE PrecomputedLoop(_, _, _, _, _)
PrecomputedLoop(programs, slotCount, schedule, cursor, at) ==
  IF at >= Len(programs) \/ cursor >= slotCount
  THEN OffAirFrom(schedule, cursor, slotCount)
  ELSE LET duration == IF programs[at + 1] = NULL THEN 1 ELSE programs[at + 1]
           span == SetMin({duration, slotCount - cursor})
       IN PrecomputedLoop(programs, slotCount,
                          Append(schedule, ProgramSlot(cursor, span, at)),
                          cursor + span, at + 1)

\* The precomputed builder repeating its programs as the manifest one does.
buildSchedulePrecomputedLooping(programs, slotCount) ==
  IF Len(programs) = 0 THEN OffAirFrom(<<>>, 0, slotCount)
  ELSE ManifestLoop(programs, slotCount, <<>>, 0, 0)

buildSchedulePrecomputed(programs, slotCount) ==
  PrecomputedLoop(programs, slotCount, <<>>, 0, 0)

MaxPrograms == 2

\* Lists of up to MaxPrograms programs: no duration given, negative, zero,
\* two slots, or more slots than any schedule here has.
ProgramLists ==
  UNION { [1..n -> {NULL, -2, 0, 2, 7}] : n \in 0..MaxPrograms }

CallBuildSchedule ==
  /\ \E programs \in ProgramLists, slotCount \in {0, 1, 2, 6} :
       libCall' =
         [fn |-> "buildSchedule", programs |-> programs, slotCount |-> slotCount,
          manifest |-> buildSchedule(programs, slotCount),
          precomputed |-> buildSchedulePrecomputed(programs, slotCount)]
  /\ UNCHANGED << displayVars, remoteVars, preloadVars, netVars, pacerVars, pollVars >>

NextLib ==
  \/ CallGetCurrentSlotIndex
  \/ CallBuildSchedule

LibInit ==
  InitDisplayIdle /\ InitRemoteIdle /\ InitPreloadOff /\ InitLibIdle /\ InitPacerIdle /\ InitPollIdle /\ InitNetIdle

SpecLib == LibInit /\ [][NextLib]_vars

\* ------------------------------------------------------------------------
\* Properties of getCurrentSlotIndex
\* ------------------------------------------------------------------------
SlotCallMade == libCall.fn = "getCurrentSlotIndex"

\* The result of the recorded call at another instant of the same day.
CallResultAt(now) ==
  getCurrentSlotIndex(now, libCall.startTime, libCall.slotMinutes,
                      libCall.slotCount)

NonDecreasingFromCall ==
  \A later \in Instants :
    libCall.now <= later => libCall.result <= CallResultAt(later)

\* C16 as stated: for all slotCount, slotMinutes and now the result lies in
\* [0, slotCount-1] and does not decrease as now advances within one day.
C16_AsStated ==
  SlotCallMade =>
    /\ libCall.result \in 0..(libCall.slotCount - 1)
    /\ NonDecreasingFromCall

\* C16: for slotCount >= 1 the result of getCurrentSlotIndex lies in
\* [0, slotCount-1]; for slotCount <= 0, where that range is empty, the result
\* is 0; and for two instants t1 <= t2 of one day with the same startTime,
\* slotMinutes and slotCount the result for t1 is <= the result for t2.
C16_SlotIndexRange ==
  SlotCallMade =>
    /\ libCall.slotCount >= 1 => libCall.result \in 0..(libCall.slotCount - 1)
    /\ libCall.slotCount <= 0 => libCall.result = 0
    /\ NonDecreasingFromCall

\* 19:00 with a 16:00 start and six half-hour slots: the seventh half hour is
\* clamped to the last slot, and an earlier instant of the day gives less.
C16_Witness ==
  /\ SlotCallMade
  /\ libCall.startTime = <<1, 6, CharColon, 0, 0>>
  /\ libCall.slotMinutes = 30
  /\ libCall.slotCount = 6
  /\ libCall.now = 68400000
  /\ libCall.result = 5
  /\ CallResultAt(61500000) < libCall.result

\* floor(elapsed / slot) as the one k with k * slot <= elapsed < (k+1) * slot.
SlotsPerDay == 48

ReferenceFloor(elapsedMs, slotMs) ==
  CHOOSE k \in (0 - SlotsPerDay)..SlotsPerDay :
    k * slotMs <= elapsedMs /\ elapsedMs < (k + 1) * slotMs

\* 16:00, 16:30 of StartTimes in minutes after midnight, by their digits.
ReferenceStartMinutes(startTime) ==
  (startTime[1] * 10 + startTime[2]) * 60 + startTime[4] * 10 + startTime[5]

Parsable(startTime) ==
  /\ Len(startTime) = 5
  /\ startTime[3] = CharColon
  /\ \A i \in {1, 2, 4, 5} : startTime[i] \in 0..9

\* C19: for a parsable startTime, slotMinutes >= 1 and slotCount >= 1 the
\* result is clamp(floor(minutes elapsed since today's startTime /
\* slotMinutes), 0, slotCount-1); an instant exactly on a slot boundary gives
\* the later slot; every instant before startTime gives 0; an unparsable
\* startTime gives 0; and 17:05 with startTime 16:00, slotMinutes 30,
\* slotCount 6 gives 2.
C19_SlotIndexReference ==
  /\ SlotCallMade /\ Parsable(libCall.startTime) /\ libCall.slotMinutes >= 1
       /\ libCall.slotCount >= 1 =>
       LET startMs == ReferenceStartMinutes(libCall.startTime) * MsPerMinute
           slotMs == libCall.slotMinutes * MsPerMinute
           elapsed == libCall.now - startMs
       IN /\ libCall.result =
               clamp(ReferenceFloor(elapsed, slotMs), 0, libCall.slotCount - 1)
          /\ elapsed < 0 => libCall.result = 0
          /\ elapsed >= 0 /\ elapsed % slotMs = 0
               /\ elapsed \div slotMs < libCall.slotCount =>
               libCall.result = elapsed \div slotMs
  /\ SlotCallMade /\ ~Parsable(libCall.startTime) => libCall.result = 0
  /\ getCurrentSlotIndex(61500000, <<1, 6, CharColon, 0, 0>>, 30, 6) = 2

\* 16:30 sharp with a 16:00 start and half-hour slots: the boundary instant is
\* in slot 1, the millisecond before it in slot 0.
C19_Witness ==
  /\ SlotCallMade
  /\ libCall.startTime = <<1, 6, CharColon, 0, 0>>
  /\ libCall.slotMinutes = 30
  /\ libCall.slotCount = 6
  /\ libCall.now = 59400000
  /\ libCall.result = 1
  /\ CallResultAt(59399999) = 0

\* ------------------------------------------------------------------------
\* Properties of buildSchedule
\* ------------------------------------------------------------------------
ScheduleCallMade == libCall.fn = "buildSchedule"

\* Increasing, from 0, spans >= 1, end = start + span - 1, contiguous, and
\* the spans sum to slotCount.
RECURSIVE SumSpans(_)
SumSpans(schedule) ==
  IF schedule = <<>> THEN 0
  ELSE schedule[1].span + SumSpans(Tail(schedule))

Partitions(schedule, slotCount) ==
  /\ Len(schedule) >= 1 => schedule[1].start = 0
  /\ \A i \in 1..Len(schedule) :
       /\ schedule[i].span >= 1
       /\ schedule[i].end = schedule[i].start + schedule[i].span - 1
  /\ \A i \in 1..(Len(schedule) - 1) :
       schedule[i + 1].start = schedule[i].end + 1
  /\ SumSpans(schedule) = slotCount

\* C17, for the manifest-driven builder: for every program list and every
\* slotCount >= 0 the slots of buildSchedule partition [0, slotCount).
C17_ManifestPartitions ==
  ScheduleCallMade /\ libCall.slotCount >= 0 =>
    Partitions(libCall.manifest, libCall.slotCount)

\* C17: for every program list (any duration per program, including 0,
\* negative or larger than slotCount) and every slotCount, the slots returned
\* by the manifest-driven and by the precomputed builder are in increasing
\* order from 0, each with span >= 1 and end = start + span - 1, contiguous
\* without gap or overlap, and their spans sum to slotCount.
C17_SchedulePartitions ==
  ScheduleCallMade =>
    /\ Partitions(libCall.manifest, libCall.slotCount)
    /\ Partitions(libCall.precomputed, libCall.slotCount)

\* One program of durationSlots 0 in a precomputed index of one slot: a slot
\* of span 0 ending before it starts, then Off Air over the same start.
C17_ZeroDurationState ==
  /\ ScheduleCallMade
  /\ libCall.programs = <<0>>
  /\ libCall.slotCount = 1
  /\ libCall.precomputed =
       << ProgramSlot(0, 0, 0), ProgramSlot(0, 1, NULL) >>
  /\ libCall.precomputed[1].end = -1

\* The programs of a schedule, in order, without the Off Air filler.
ProgramsOf(schedule) ==
  SelectSeq(schedule, LAMBDA slot : slot.program # NULL)

\* C18: with slotCount 6 a precomputed channel whose only program has
\* durationSlots 2 yields [{0,1},{2,2},{3,3},{4,4},{5,5}]: the program once,
\* then Off Air slots of width 1 without url up to slotCount; and in general
\* no program occurs twice, programs come in their order before all filler,
\* and every filler slot has width 1.
C18_PrecomputedPadsWithFiller ==
  /\ buildSchedulePrecomputed(<<2>>, 6) =
       << ProgramSlot(0, 2, 0), ProgramSlot(2, 1, NULL),
          ProgramSlot(3, 1, NULL), ProgramSlot(4, 1, NULL),
          ProgramSlot(5, 1, NULL) >>
  /\ ScheduleCallMade =>
       LET schedule == libCall.precomputed
           shown == ProgramsOf(schedule)
       IN /\ Len(shown) <= Len(libCall.programs)
          /\ \A i \in 1..Len(shown) : shown[i].program = i - 1
          /\ \A i \in 1..Len(schedule) :
               /\ i <= Len(shown) <=> schedule[i].program # NULL
               /\ schedule[i].program = NULL => schedule[i].span = 1
          /\ Len(schedule) >= 1 /\ libCall.slotCount >= 1 =>
               schedule[Len(schedule)].end = libCall.slotCount - 1

C18_Witness ==
  /\ ScheduleCallMade
  /\ libCall.programs = <<2>>
  /\ libCall.slotCount = 6
  /\ Len(libCall.precomputed) = 5
  /\ libCall.precomputed[1] = [start |-> 0, span |-> 2, end |-> 1, program |-> 0]
  /\ \A i \in 2..5 :
       libCall.precomputed[i] =
         [start |-> i, span |-> 1, end |-> i, program |-> NULL]
  /\ Len(libCall.manifest) = 3

\* ------------------------------------------------------------------------
\* Properties of failed preloads
\* ------------------------------------------------------------------------
\* setHasPreviewMedia(true) follows previewAttachedRef.current = readyElement
\* and setHasPreviewMedia(false) every detach of the attach effect.
hasPreviewMedia == previewAttachedRef # NULL

FailedEntries(cache) == {i \in 1..Len(cache) : cache[i].status = "error"}

\* A miss ran: an element was created, and the sweep followed.
SweepRan == elementCount' > elementCount

FailedStaysFailed ==
  \A i \in FailedEntries(preloadCache) :
    \/ \E j \in 1..Len(preloadCache') :
         /\ preloadCache'[j].element = preloadCache[i].element
         /\ preloadCache'[j].url = preloadCache[i].url
         /\ preloadCache'[j].status = "error"
    \/ /\ \A j \in 1..Len(preloadCache') :
            preloadCache'[j].element # preloadCache[i].element
       /\ SweepRan

RequeueKeepsFailure ==
  \A i \in FailedEntries(preloadCache) :
    LET after == queuePreload(PreloadState, preloadCache[i].url)
    IN /\ after.elementCount = elementCount
       /\ after.pendingLoads = pendingLoads
       /\ after.preloadCache =
            [preloadCache EXCEPT ![i].lastUsed = nowTs]

NoPreviewOfFailure ==
  \A i \in FailedEntries(preloadCache) :
    preloadCache[i].url = selectedProgramUrlOf(DisplayState) =>
      previewAttachedRef = NULL /\ ~hasPreviewMedia

\* C20: an entry whose load reported an error keeps status error and stays in
\* the cache until a sweep removes it; queuePreload of its url creates no
\* element and leaves its status error, changing only lastUsed; and while the
\* selected program's entry has status error nothing is attached as preview
\* and hasPreviewMedia is false.
C20_FailedPreloadsStayFailed ==
  /\ [](RequeueKeepsFailure /\ NoPreviewOfFailure)
  /\ [][FailedStaysFailed]_vars

\* The debounce callback has just queued the selected program's url again
\* while its entry is failed: the entry is still failed, a later element
\* exists, and nothing is attached.
C20_Witness ==
  /\ PRELOAD_MODE = "all"
  /\ lastOp.type = "debounce"
  /\ \E i \in FailedEntries(preloadCache) :
       /\ lastOp.urls = << preloadCache[i].url >>
       /\ preloadCache[i].url = selectedProgramUrlOf(DisplayState)
       /\ preloadCache[i].lastUsed = nowTs
       /\ preloadCache[i].element < elementCount
  /\ previewAttachedRef = NULL

\* ------------------------------------------------------------------------
\* hooks/useRemoteSocket.ts and the relay of server/src/index.ts
\* ------------------------------------------------------------------------
MaxSends == 3
MaxFailures == 5
MaxDrops == 2
BaseDelayMs == 1000
MaxDelayMs == 10000

RECURSIVE Pow2(_)
Pow2(n) == IF n = 0 THEN 1 ELSE 2 * Pow2(n - 1)

\* A delay that keeps doubling.
ReconnectDelayUncapped(attempt) == BaseDelayMs * Pow2(attempt)

\* Math.min(1000 * 2 ** attempt, 10000)
ReconnectDelay(attempt) == SetMin({BaseDelayMs * Pow2(attempt), MaxDelayMs})

\* previousDelay records the delay of the last timer set, 0 when none was.
\* A scheduleReconnect that does not look for a pending timer.
scheduleReconnectAgain(h) ==
  [h EXCEPT !.retryRef = @ + 1,
            !.reconnectTimerRef = ReconnectDelay(h.retryRef + 1),
            !.previousDelay = ReconnectDelay(h.retryRef + 1),
            !.timers = @ + 1]

\* timers counts the timeouts set and not yet fired, whether or not
\* reconnectTimerRef still names them.
scheduleReconnect(h) ==
  IF h.reconnectTimerRef # NULL THEN h
  ELSE [h EXCEPT !.retryRef = @ + 1,
                 !.reconnectTimerRef = ReconnectDelay(h.retryRef + 1),
                 !.previousDelay = ReconnectDelay(h.retryRef + 1),
                 !.timers = @ + 1]

\* The channels the display can show here: a channel of the index and the
\* godmode pseudo-channel.
LiveChannels ==
  { [id |-> "one", number |-> <<1>>, url |-> "a.png"],
    [id |-> GODMODE_CHANNEL_ID, number |-> GODMODE_CHANNEL_NUMBER,
     url |-> NoUrl] }

\* JSON.stringify(message) as the text on the wire, tagged with the number of
\* the send call that wrote it; a text that is no JSON; a JSON text of a type
\* no handler knows.
stringify(message, id) == [json |-> TRUE, body |-> message, id |-> id]

MalformedText(id) == [json |-> FALSE, body |-> Message(""), id |-> id]

UnknownTypeText(id) == stringify(Message("bogus"), id)

\* A relay that keeps the sender out.
RelayToOthers(socks, from, text) ==
  [c \in Clients |->
     [k \in 1..MaxSockets |->
        IF socks[c][k].readyState = "open" /\ c # from
        THEN [socks[c][k] EXCEPT !.down = Append(@, text)]
        ELSE socks[c][k]]]

\* wss.clients.forEach(client => client.readyState === OPEN &&
\* client.send(message)), for whatever text was received.
Relay(socks, from, text) ==
  [c \in Clients |->
     [k \in 1..MaxSockets |->
        IF socks[c][k].readyState = "open"
        THEN [socks[c][k] EXCEPT !.down = Append(@, text)]
        ELSE socks[c][k]]]

\* A send that keeps the message for later when the socket is not open.
socketSendQueued(S, c, message) ==
  [sockets |-> [S.sockets EXCEPT
                  ![c][SetMax({1, hook[c].socketRef})].up =
                     Append(@, stringify(message, S.wire.sendCount + 1))],
   wire |-> [S.wire EXCEPT !.sendCount = @ + 1]]

\* A send that writes ahead of what the socket has not yet delivered.
socketSendAtFront(S, c, message) ==
  IF /\ hook[c].socketRef # NULL
     /\ S.sockets[c][hook[c].socketRef].readyState = "open"
  THEN [sockets |-> [S.sockets EXCEPT
                       ![c][hook[c].socketRef].up =
                          <<stringify(message, S.wire.sendCount + 1)>> \o @],
        wire |-> [S.wire EXCEPT !.sendCount = @ + 1]]
  ELSE [sockets |-> S.sockets,
        wire |-> [S.wire EXCEPT !.sendCount = @ + 1,
                                !.dropped = @ \cup {S.wire.sendCount + 1}]]

\* send of useRemoteSocket, on the sockets and the record S: written to
\* socketRef.current when that socket is OPEN, else logged and dropped.
socketSend(S, c, message) ==
  IF /\ hook[c].socketRef # NULL
     /\ S.sockets[c][hook[c].socketRef].readyState = "open"
  THEN [sockets |-> [S.sockets EXCEPT
                       ![c][hook[c].socketRef].up =
                          Append(@, stringify(message, S.wire.sendCount + 1))],
        wire |-> [S.wire EXCEPT !.sendCount = @ + 1]]
  ELSE [sockets |-> S.sockets,
        wire |-> [S.wire EXCEPT !.sendCount = @ + 1,
                                !.dropped = @ \cup {S.wire.sendCount + 1}]]

NetFrame ==
  UNCHANGED << displayVars, preloadVars, libVars, pacerVars, pollVars,
               dialBuffer,
               dialTimeoutRef,
               remoteSocketOpen, remoteSent, dialEvents, staleDialTimers,
               dialUpdates >>

\* connect(): new WebSocket, socketRef.current = socket, setStatus.
connect(c) ==
  \E k \in 1..MaxSockets :
    /\ sockets[c][k].readyState = "closed"
    /\ \A j \in 1..(k - 1) : sockets[c][j].readyState # "closed"
    /\ sockets' = [sockets EXCEPT ![c][k].readyState = "connecting"]
    /\ hook' = [hook EXCEPT ![c].socketRef = k, ![c].status = "connecting",
                            ![c].reconnectTimerRef = NULL,
                            ![c].timers = @ - 1]

\* The open listener.
SocketOpens(c, k) ==
  /\ sockets[c][k].readyState = "connecting"
  /\ sockets' = [sockets EXCEPT ![c][k].readyState = "open"]
  /\ hook' = [hook EXCEPT ![c].retryRef = 0, ![c].status = "open"]
  /\ netOp' = [NetOp("open") EXCEPT !.client = c, !.slot = k]
  /\ UNCHANGED << liveChannel, remoteNowChannel, wire, remoteGodmodeOpen >>
  /\ NetFrame

\* The connection is lost: what was in flight on it is gone.
SocketGone(c, k, listeners) ==
  /\ sockets[c][k].readyState \in {"connecting", "open"}
  /\ wire.failures < MaxFailures
  /\ wire' = [wire EXCEPT !.failures = @ + 1]
  /\ sockets' = [sockets EXCEPT ![c][k] = NoSocket]
  /\ hook' = [hook EXCEPT ![c] = [listeners EXCEPT !.status = "closed"]]
  /\ UNCHANGED << liveChannel, remoteNowChannel, remoteGodmodeOpen >>
  /\ NetFrame

\* A failed connection: the browser fires error and then close in one task,
\* so both listeners run before any timer; the second scheduleReconnect finds
\* the timer pending.
SocketFails(c, k) ==
  /\ SocketGone(c, k, scheduleReconnect(scheduleReconnect(hook[c])))
  /\ netOp' = [NetOp("error") EXCEPT !.client = c, !.slot = k]

\* A connection closed by the server or the network: the close listener.
SocketCloses(c, k) ==
  /\ SocketGone(c, k, scheduleReconnect(hook[c]))
  /\ netOp' = [NetOp("close") EXCEPT !.client = c, !.slot = k]

\* A reconnect timer fires: reconnectTimerRef.current = null; connect().
TimerFires(c) ==
  /\ hook[c].timers > 0
  /\ connect(c)
  /\ netOp' = [NetOp("timer") EXCEPT !.client = c]
  /\ UNCHANGED << liveChannel, remoteNowChannel, wire, remoteGodmodeOpen >>
  /\ NetFrame

\* The display changes channel by its own keys and announces it: every
\* change of the live channel hands one now message to send.
DisplayTunes(channel) ==
  /\ wire.sendCount < MaxSends
  /\ channel # liveChannel
  /\ liveChannel' = channel
  /\ \E sent1 \in {socketSend([sockets |-> sockets, wire |-> wire], "display",
                              NowMessage(channel.id, channel.number,
                                         channel.url))} :
       /\ sockets' = sent1.sockets
       /\ wire' = [sent1.wire EXCEPT !.lastNowId = sent1.wire.sendCount]
  /\ netOp' = [NetOp("send") EXCEPT !.client = "display"]
  /\ UNCHANGED << hook, remoteNowChannel, remoteGodmodeOpen >>
  /\ NetFrame

\* The remote sends a tune.
RemoteTunes(number) ==
  /\ wire.sendCount < MaxSends
  /\ \E sent1 \in {socketSend([sockets |-> sockets, wire |-> wire], "remote",
                              TuneMessage(number))} :
       /\ sockets' = sent1.sockets
       /\ wire' = sent1.wire
  /\ netOp' = [NetOp("send") EXCEPT !.client = "remote"]
  /\ UNCHANGED << hook, liveChannel, remoteNowChannel, remoteGodmodeOpen >>
  /\ NetFrame

\* socket.on('message') of the server: the parse is tried, its failure
\* ignored, and the text is relayed.
ServerOnMessage(socks, from, text) ==
  sockets' = Relay(socks, from, text)

ServerReceives(c, k) ==
  /\ sockets[c][k].up # <<>>
  /\ ServerOnMessage([sockets EXCEPT ![c][k].up = Tail(@)], c,
                     Head(sockets[c][k].up))
  /\ wire' = [wire EXCEPT
                !.handled = @ \cup {Head(sockets[c][k].up).id},
                !.missedNows =
                   IF /\ Head(sockets[c][k].up).body.type = "now"
                      /\ \A j \in 1..MaxSockets :
                           sockets["remote"][j].readyState # "open"
                   THEN @ \cup {Head(sockets[c][k].up).id} ELSE @,
                !.away =
                   IF /\ Head(sockets[c][k].up).body.type = "now"
                      /\ \A j \in 1..MaxSockets :
                           sockets["remote"][j].readyState # "open"
                   THEN TRUE ELSE @]
  /\ netOp' = [NetOp("relay") EXCEPT !.client = c, !.slot = k]
  /\ UNCHANGED << hook, liveChannel, remoteNowChannel, remoteGodmodeOpen >>
  /\ NetFrame

\* A text from a connection that is none of the two apps.
ForeignTexts ==
  { MalformedText(wire.sendCount + 1), UnknownTypeText(wire.sendCount + 1) }

ServerReceivesForeign(text) ==
  /\ wire.sendCount < MaxSends
  /\ ServerOnMessage(sockets, "", text)
  /\ wire' = [wire EXCEPT !.handled = @ \cup {text.id}, !.sendCount = @ + 1]
  /\ netOp' = NetOp("relay")
  /\ UNCHANGED << hook, liveChannel, remoteNowChannel, remoteGodmodeOpen >>
  /\ NetFrame

\* A handler that takes the number and forgets the id.
RemoteOnNowNumberOnly(msg) ==
  /\ remoteNowChannel' = [id |-> "", number |-> msg.number]
  /\ remoteGodmodeOpen' = (normalizeChannelNumber(msg.number) = 67)

\* The now branch of the remote's handler.
RemoteOnNow(msg) ==
  /\ remoteNowChannel' = [id |-> msg.channelId, number |-> msg.number]
  /\ remoteGodmodeOpen' =
       (\/ msg.channelId = GODMODE_CHANNEL_ID
        \/ normalizeChannelNumber(msg.number) = 67)

\* The channel a tune resolves to, as handleTuneToNumber finds it.
TunedChannels(number) ==
  {channel \in LiveChannels :
     normalizeChannelNumber(channel.number) = normalizeChannelNumber(number)}

\* The message listener of a socket: JSON.parse in a try, then the handler of
\* the app: the remote's for now, the display's for tune; every other type,
\* and a text that does not parse, changes nothing.
ClientReceives(c, k) ==
  /\ sockets[c][k].readyState = "open"
  /\ sockets[c][k].down # <<>>
  /\ \E text \in {Head(sockets[c][k].down)} :
     \E rest \in {[sockets EXCEPT ![c][k].down = Tail(@)]} :
       /\ netOp' = [NetOp("message") EXCEPT !.client = c, !.slot = k]
       /\ IF text.json /\ c = "remote" /\ text.body.type = "now"
          THEN /\ RemoteOnNow(text.body)
               /\ sockets' = rest
               /\ wire' = [wire EXCEPT !.away = FALSE]
               /\ UNCHANGED liveChannel
          ELSE IF /\ text.json /\ c = "display" /\ text.body.type = "tune"
                  /\ TunedChannels(text.body.number) # {}
          THEN /\ wire.sendCount < MaxSends
               /\ \E channel \in TunedChannels(text.body.number) :
                  \E sent1 \in {socketSend([sockets |-> rest, wire |-> wire],
                                           "display",
                                           NowMessage(channel.id,
                                                      channel.number,
                                                      channel.url))} :
                    /\ liveChannel' = channel
                    /\ sockets' = sent1.sockets
                    /\ wire' = [sent1.wire EXCEPT
                                  !.lastNowId = sent1.wire.sendCount]
                    /\ UNCHANGED << remoteNowChannel, remoteGodmodeOpen >>
          ELSE /\ sockets' = rest
               /\ UNCHANGED << liveChannel, wire, remoteNowChannel,
                               remoteGodmodeOpen >>
  /\ UNCHANGED hook
  /\ NetFrame

\* The two hooks under the events of their connections alone.
NextReconnect ==
  \/ \E c \in Clients, k \in 1..MaxSockets : SocketOpens(c, k)
  \/ \E c \in Clients, k \in 1..MaxSockets : SocketFails(c, k)
  \/ \E c \in Clients, k \in 1..MaxSockets : SocketCloses(c, k)
  \/ \E c \in Clients : TimerFires(c)

\* The apps, their hooks and the server, with at most MaxDrops connections
\* lost.
NextRelay ==
  \/ \E c \in Clients, k \in 1..MaxSockets : SocketOpens(c, k)
  \/ \E c \in Clients, k \in 1..MaxSockets :
       wire.failures < MaxDrops /\ SocketFails(c, k)
  \/ \E c \in Clients, k \in 1..MaxSockets :
       wire.failures < MaxDrops /\ SocketCloses(c, k)
  \/ \E c \in Clients : TimerFires(c)
  \/ \E channel \in LiveChannels : DisplayTunes(channel)
  \/ \E number \in {<<1>>, <<6, 7>>} : RemoteTunes(number)
  \/ \E c \in Clients, k \in 1..MaxSockets : ServerReceives(c, k)
  \/ \E text \in ForeignTexts : ServerReceivesForeign(text)
  \/ \E c \in Clients, k \in 1..MaxSockets : ClientReceives(c, k)

\* Both apps mounted: each hook has run connect() once; the display shows
\* channel one and the remote has heard of no channel yet.
InitRelay ==
  /\ hook = [c \in Clients |->
               [HookAtFirstRender EXCEPT !.socketRef = 1]]
  /\ sockets = [c \in Clients |->
                  [k \in 1..MaxSockets |->
                     IF k = 1 THEN [NoSocket EXCEPT !.readyState = "connecting"]
                     ELSE NoSocket]]
  /\ liveChannel \in LiveChannels
  /\ remoteNowChannel = NoNowChannel
  /\ wire = WireIdle
  /\ netOp = NetOp("mount")

RelayInit ==
  InitDisplayIdle /\ InitRemoteIdle /\ InitPreloadOff /\ InitLibIdle /\ InitPacerIdle /\ InitPollIdle /\ InitRelay

SpecRelay == RelayInit /\ [][NextRelay]_vars

\* A timer set is fired: setTimeout callbacks are not starved.
SpecReconnect ==
  RelayInit /\ [][NextReconnect]_vars
    /\ \A c \in Clients : WF_vars(TimerFires(c))

\* ------------------------------------------------------------------------
\* Properties of the reconnecting socket
\* ------------------------------------------------------------------------
TimerSet(c) ==
  hook[c].reconnectTimerRef = NULL /\ hook'[c].reconnectTimerRef # NULL

\* C12: a reconnect timer is set only by a close or an error, and every close
\* or error leaves one pending; its delay is 2000 ms when no attempt failed
\* since the mount or since the socket last opened, otherwise twice the delay
\* of the timer before, and never more than 10000 ms; an open sets the
\* attempt counter to 0; and a hook whose status is closed connects again.
C12_ReconnectBackoff ==
  /\ [][\A c \in Clients :
          /\ TimerSet(c) =>
               /\ netOp'.type \in {"error", "close"} /\ netOp'.client = c
               /\ hook'[c].reconnectTimerRef <= MaxDelayMs
               /\ hook'[c].reconnectTimerRef =
                    IF hook[c].status = "open" \/ hook[c].previousDelay = 0
                    THEN 2 * BaseDelayMs
                    ELSE SetMin({2 * hook[c].previousDelay, MaxDelayMs})
          /\ netOp'.type \in {"error", "close"} /\ netOp'.client = c =>
               hook'[c].status = "closed" /\ hook'[c].reconnectTimerRef # NULL
          /\ netOp'.type = "open" /\ netOp'.client = c =>
               hook'[c].retryRef = 0
     ]_vars
  /\ \A c \in Clients :
       hook[c].status = "closed" ~> hook[c].status = "connecting"

\* Five attempts of the remote failed in a row: 2000, 4000, 8000, 10000 and
\* now 10000 again.
C12_Witness ==
  /\ netOp.type \in {"error", "close"}
  /\ hook["remote"].retryRef = 5
  /\ hook["remote"].previousDelay = MaxDelayMs
  /\ hook["remote"].reconnectTimerRef = MaxDelayMs
  /\ hook["remote"].status = "closed"

\* ------------------------------------------------------------------------
\* Properties of send and of the relay
\* ------------------------------------------------------------------------
Slots == Clients \X (1..MaxSockets)

\* The numbers of the texts in flight in a queue.
IdsIn(queue) == {queue[i].id : i \in 1..Len(queue)}

InFlightIds ==
  UNION {IdsIn(sockets[s[1]][s[2]].up) \cup IdsIn(sockets[s[1]][s[2]].down) :
           s \in Slots}

\* The send call numbered sendCount + 1 is made by client c in this step.
SendBy(c) ==
  /\ wire'.sendCount = wire.sendCount + 1
  /\ \/ netOp'.type = "send" /\ netOp'.client = c
     \/ netOp'.type = "message" /\ c = "display" /\ netOp'.client = c

RefOpen(c) ==
  /\ hook[c].socketRef # NULL
  /\ sockets[c][hook[c].socketRef].readyState = "open"

\* C13: a send made while socketRef's socket is not OPEN writes nothing to any
\* socket and is kept nowhere (the hook is unchanged and no queue grows); a
\* dropped send is never in flight nor handled by the server afterwards,
\* reconnect or not; a send made while the socket is OPEN is written once; and
\* the server handles no send twice.
C13_BestEffortSend ==
  /\ [](/\ wire.dropped \cap (InFlightIds \cup wire.handled) = {}
        /\ \A s \in Slots :
             LET up == sockets[s[1]][s[2]].up
             IN /\ IdsIn(up) \cap wire.handled = {}
                /\ \A i, j \in 1..Len(up) : up[i].id = up[j].id => i = j
                /\ \A r \in Slots : r # s =>
                     IdsIn(up) \cap IdsIn(sockets[r[1]][r[2]].up) = {})
  /\ [][/\ \A c \in Clients :
             SendBy(c) =>
               /\ hook' = hook
               /\ IF RefOpen(c)
                  THEN /\ wire'.dropped = wire.dropped
                       /\ Len(sockets'[c][hook[c].socketRef].up) =
                            Len(sockets[c][hook[c].socketRef].up) + 1
                       /\ sockets'[c][hook[c].socketRef].up[
                            Len(sockets'[c][hook[c].socketRef].up)].id =
                              wire'.sendCount
                  ELSE /\ wire'.dropped = wire.dropped \cup {wire'.sendCount}
                       /\ \A s \in Slots :
                            sockets'[s[1]][s[2]].up = sockets[s[1]][s[2]].up
        /\ netOp'.type = "relay" /\ netOp'.client # "" =>
             Head(sockets[netOp'.client][netOp'.slot].up).id \notin wire.handled
       ]_vars

\* A send was dropped, the connection was lost and made again, another send
\* went through since, and nothing is in flight: the dropped one never came.
C13_Witness ==
  /\ wire.dropped # {}
  /\ wire.handled # {}
  /\ SetMax(wire.handled \cup {0}) > SetMax(wire.dropped \cup {0})
  /\ wire.failures >= 1
  /\ \A c \in Clients : hook[c].status = "open" /\ hook[c].previousDelay > 0
  /\ InFlightIds = {}

\* The text the server's handler is given in this step.
RelayedTexts ==
  IF netOp'.client = "" THEN ForeignTexts
  ELSE {Head(sockets[netOp'.client][netOp'.slot].up)}

\* C14: when the server handles a text, whoever sent it, every socket that is
\* open at that moment gets exactly that text appended to what it is to
\* receive, the sender's socket included, and no other socket gets anything;
\* the text handled is the oldest one the sender wrote that is still unread,
\* and no other step writes to a client.
C14_FullMeshRelay ==
  [][/\ netOp'.type = "relay" =>
          \E text \in RelayedTexts :
            \A s \in Slots :
              /\ sockets'[s[1]][s[2]].down =
                   IF sockets[s[1]][s[2]].readyState = "open"
                   THEN Append(sockets[s[1]][s[2]].down, text)
                   ELSE sockets[s[1]][s[2]].down
              /\ sockets'[s[1]][s[2]].up =
                   IF s = << netOp'.client, netOp'.slot >>
                   THEN Tail(sockets[s[1]][s[2]].up)
                   ELSE sockets[s[1]][s[2]].up
     /\ netOp'.type # "relay" =>
          \A s \in Slots :
            sockets'[s[1]][s[2]].down \in
              { sockets[s[1]][s[2]].down, <<>>,
                IF sockets[s[1]][s[2]].down = <<>> THEN <<>>
                ELSE Tail(sockets[s[1]][s[2]].down) }
    ]_vars

\* The display's now has just been relayed: it waits at the remote and at
\* the display itself.
C14_Witness ==
  /\ netOp.type = "relay"
  /\ netOp.client = "display"
  /\ \E k \in 1..MaxSockets, j \in 1..MaxSockets :
       /\ sockets["display"][k].down # <<>>
       /\ sockets["remote"][j].down # <<>>
       /\ sockets["display"][k].down[Len(sockets["display"][k].down)] =
            sockets["remote"][j].down[Len(sockets["remote"][j].down)]
       /\ sockets["remote"][j].down[Len(sockets["remote"][j].down)].body.type
            = "now"
       /\ sockets["remote"][j].down[Len(sockets["remote"][j].down)].id
            = wire.lastNowId

\* A text that does not parse, or parses to a type no handler knows.
IsMalformed(text) ==
  ~text.json \/ text.body.type \notin {"now", "tune"}

\* C15, on the side of the apps: a client that receives a text that does not
\* parse or has an unknown type changes nothing of the display's or the
\* remote's state and sends nothing.
C15_ClientsIgnoreMalformed ==
  [][(/\ netOp'.type = "message"
      /\ IsMalformed(Head(sockets[netOp'.client][netOp'.slot].down))) =>
       UNCHANGED << liveChannel, remoteNowChannel, remoteGodmodeOpen, wire,
                    hook >>
    ]_vars

\* C15: a text that fails JSON parsing or carries an unknown type is relayed
\* to no client and changes no display or remote state.
C15_MalformedDropped ==
  [][/\ (netOp'.type = "relay" /\ \A text \in RelayedTexts : IsMalformed(text))
          => \A s \in Slots :
               sockets'[s[1]][s[2]].down = sockets[s[1]][s[2]].down
     /\ (/\ netOp'.type = "message"
         /\ IsMalformed(Head(sockets[netOp'.client][netOp'.slot].down))) =>
          UNCHANGED << liveChannel, remoteNowChannel, remoteGodmodeOpen >>
    ]_vars

\* A text that is no JSON waits at both apps.
C15_MalformedRelayedState ==
  \A c \in Clients :
    \E k \in 1..MaxSockets :
      /\ sockets[c][k].down # <<>>
      /\ ~sockets[c][k].down[1].json

\* The remote, which had no open socket when a now of the display was
\* relayed and has reconnected, handles its first now since.
FirstNowAfterReconnect ==
  /\ netOp'.type = "message"
  /\ netOp'.client = "remote"
  /\ Head(sockets["remote"][netOp'.slot].down).json
  /\ Head(sockets["remote"][netOp'.slot].down).body.type = "now"
  /\ wire.away
  /\ hook["remote"].previousDelay > 0

Expired(entry) == nowTs - entry.lastUsed > PRELOAD_CACHE_TTL_MS

\* The step is the debounce timer queueing a url the cache does not hold:
\* queuePreload adds an entry and runs the sweep.
SweepOnMiss ==
  /\ lastOp'.type = "debounce"
  /\ elementCount' = elementCount + 1

\* The cache the sweep starts from: the entries before the call and the new
\* one, used at the time of the call.
BeforeSweep ==
  Append(preloadCache,
         PreloadEntry(lastOp'.urls[1], getMediaKind(lastOp'.urls[1]),
                      elementCount + 1, nowTs))

ElementsOf(cache) == {cache[i].element : i \in 1..Len(cache)}

\* C21: right after a sweep no entry untouched for longer than
\* PRELOAD_CACHE_TTL_MS is in the cache: after every queuePreload of a url
\* the cache did not hold, whichever timer made it, and after one more such
\* call for any url from any state.
C21_SweepRemovesExpired ==
  /\ [](\A url \in QueuedUrls :
          LET after == queuePreload(PreloadState, url)
          IN after.elementCount # elementCount =>
               \A i \in 1..Len(after.preloadCache) :
                 ~Expired(after.preloadCache[i]))
  /\ [][ elementCount' # elementCount =>
           \A i \in 1..Len(preloadCache') :
             ~(nowTs' - preloadCache'[i].lastUsed > PRELOAD_CACHE_TTL_MS) ]_vars

\* Two elements were made, the first more than the TTL before the second:
\* the sweep of the second call has left the new entry alone in the cache.
C21_Witness ==
  /\ lastOp.type = "debounce"
  /\ nowTs > PRELOAD_CACHE_TTL_MS
  /\ elementCount = 2
  /\ Len(preloadCache) = 1
  /\ preloadCache[1].element = 2
  /\ preloadCache[1].lastUsed = nowTs

\* C26: a sweep that finds more than PRELOAD_CACHE_LIMIT entries left after
\* the expired ones are gone removes exactly the surplus, and nothing it
\* keeps was used before anything it removes.
C26_LruEvictionOrder ==
  [][ SweepOnMiss =>
        LET before == BeforeSweep
            fresh == {i \in 1..Len(before) :
                        ~(nowTs - before[i].lastUsed > PRELOAD_CACHE_TTL_MS)}
            kept == {i \in fresh : before[i].element \in ElementsOf(preloadCache')}
            evicted == fresh \ kept
        IN Cardinality(fresh) > PRELOAD_CACHE_LIMIT =>
             /\ Len(preloadCache') = PRELOAD_CACHE_LIMIT
             /\ Cardinality(evicted) = Cardinality(fresh) - PRELOAD_CACHE_LIMIT
             /\ ElementsOf(preloadCache') = {before[i].element : i \in kept}
             /\ \A i \in kept : \A j \in evicted :
                  before[i].lastUsed >= before[j].lastUsed ]_vars

\* Nothing had expired when the third element was made, and the sweep kept
\* the entry inserted first, used since, over the one inserted second.
C26_Witness ==
  /\ lastOp.type = "debounce"
  /\ nowTs = ClockStepMs
  /\ elementCount = 3
  /\ Len(preloadCache) = 2
  /\ preloadCache[1].element = 1
  /\ preloadCache[2].element = 3

\* ------------------------------------------------------------------------
\* Properties of the live preview
\* ------------------------------------------------------------------------
\* The elements whose parent is the live preview mount.
MountChildren ==
  {e \in 1..Len(parentElement) : parentElement[e] = "mount"}

\* The selected program's url has a ready entry that is not audio.
SelectedReady ==
  /\ selectedProgramUrlOf(DisplayState) # NoUrl
  /\ \E i \in EntriesOf(preloadCache, selectedProgramUrlOf(DisplayState)) :
       preloadCache[i].status = "ready" /\ preloadCache[i].kind # "audio"

\* C22: the live preview mount never holds two elements; a step that puts
\* an element into the mount puts the one that was there into the off-screen
\* container; and while the selected program has no ready entry that is not
\* audio the mount is empty.
C22_SingleLivePreview ==
  /\ [](Cardinality(MountChildren) <= 1 /\ (~SelectedReady => MountChildren = {}))
  /\ [][ \A e \in 1..Len(parentElement') :
           (parentElement'[e] = "mount"
            /\ (e > Len(parentElement) \/ parentElement[e] # "mount"))
           => \A f \in MountChildren : parentElement'[f] = "cache" ]_vars

\* The selection has moved to a program whose ready element is now the one
\* in the mount, while the ready element of another program sits in the
\* off-screen container.
C22_Witness ==
  /\ PRELOAD_MODE = "all"
  /\ lastOp.type = "display"
  /\ previewAttachedRef # NULL
  /\ MountChildren = {previewAttachedRef}
  /\ \E i \in EntriesOf(preloadCache, selectedProgramUrlOf(DisplayState)) :
       preloadCache[i].element = previewAttachedRef
  /\ \E i \in 1..Len(preloadCache) :
       /\ preloadCache[i].status = "ready"
       /\ preloadCache[i].element # previewAttachedRef
       /\ parentElement[preloadCache[i].element] = "cache"

\* ------------------------------------------------------------------------
\* Properties of godselect
\* ------------------------------------------------------------------------
\* A channel of the display with that id holds a program with that url.
GodselectPairExists(channelId, url) ==
  \E i \in 1..Len(channels) :
    /\ channels[i].id = channelId
    /\ \E j \in 1..Len(channels[i].schedule) :
         channels[i].schedule[j].url = url

SelectionAndPlayerUnchanged ==
  /\ selectedRow' = selectedRow /\ selectedCol' = selectedCol
  /\ playerOpen' = playerOpen /\ playerUrl' = playerUrl
  /\ playerChannelIndex' = playerChannelIndex

GodselectOpened ==
  /\ playerOpen' /\ playerUrl' = lastOp'.url
  /\ Len(NowsIn(sent')) = 1
  /\ NowsIn(sent')[1].channelId = lastOp'.channelId
  /\ NowsIn(sent')[1].url = lastOp'.url

C23_UrlLessPickState ==
  /\ lastOp.type = "godselect"
  /\ lastOp.channelId = "one" /\ lastOp.url = NoUrl
  /\ ~playerOpen
  /\ selectedCol = 1

\* ------------------------------------------------------------------------
\* Properties of the selection
\* ------------------------------------------------------------------------
\* C24 as claimed: in every state of the guide the selected column is the
\* current slot or a later one.
C24_SelectionNeverPrecedesNow ==
  selectedCol >= currentSlotIndex

\* The weaker reading: the selected program has not ended before the
\* current slot.
C24_SelectedProgramNotEnded ==
  Len(channels) > 0 =>
    selectedProgramOf(DisplayState).end >= currentSlotIndex

\* The right arrow on the last program of a row, which began before the
\* current slot, has moved the selection to that program's start.
C24_RightArrowState ==
  /\ lastOp.type = "nav"
  /\ selectedCol < currentSlotIndex
  /\ selectedProgramOf(DisplayState).end >= currentSlotIndex

\* A godselect has selected and opened a program that ended before the
\* current slot.
C24_GodselectState ==
  /\ lastOp.type = "godselect"
  /\ playerOpen
  /\ selectedCol < currentSlotIndex
  /\ selectedProgramOf(DisplayState).end < currentSlotIndex

\* The selected column is a slot of the guide and a program of the selected
\* row covers it.
SelectionInSchedule ==
  /\ selectedRow \in 0..(Len(channels) - 1)
  /\ selectedCol \in 0..(indexData.slotCount - 1)
  /\ \E j \in 1..Len(channels[selectedRow + 1].schedule) :
       /\ channels[selectedRow + 1].schedule[j].start <= selectedCol
       /\ selectedCol <= channels[selectedRow + 1].schedule[j].end

RenderedBuffers == UNION {[1..n -> DialDigits] : n \in 0..3}

\* The updater of pushDialDigit on a buffer prev.
PushedOnto(prev, digit) == SliceLast3(Append(prev, digit))

\* A committed dial was emitted in this step.
CommitEmitted ==
  \E i \in (Len(remoteSent) + 1)..Len(remoteSent') :
    remoteSent'[i].type = "dial" /\ remoteSent'[i].committed

\* C27: the dial buffer never holds more than 3 characters, neither between
\* events nor in the render a push causes; the updater of pushDialDigit
\* appends the digit and, on a buffer of 3, drops the oldest character; and
\* every step that commits, by the timer or by the third digit, leaves the
\* buffer empty.
C27_DialBufferBound ==
  /\ [](/\ Len(dialBuffer) <= 3
        /\ \A digit \in DialDigits : Len(PushedOnto(dialBuffer, digit)) <= 3
        /\ \A prev \in RenderedBuffers, digit \in DialDigits :
             /\ Len(PushedOnto(prev, digit)) <= 3
             /\ Len(prev) < 3 => PushedOnto(prev, digit) = Append(prev, digit)
             /\ Len(prev) = 3 =>
                  PushedOnto(prev, digit) = Append(Tail(prev), digit))
  /\ [][ CommitEmitted => dialBuffer' = <<>> ]_vars

\* Three digits were committed by the third push, a fourth by the timer,
\* and the buffer is empty.
C27_Witness ==
  /\ DialInputs = <<0, 2, 6, 7, TimeoutEvent>>
  /\ Len(CommittedDials) = 2
  /\ CommittedDials[1].value = <<0, 2, 6>>
  /\ CommittedDials[2].value = <<7>>
  /\ dialBuffer = <<>>

\* ------------------------------------------------------------------------
\* Properties of the commit timer and of the debounce timer
\* ------------------------------------------------------------------------
PendingDialCount ==
  Cardinality(staleDialTimers) + (IF dialTimeoutRef # NoTimer THEN 1 ELSE 0)

PendingPreloadCount ==
  Cardinality(stalePreloadTimers) + (IF preloadTimerRef # NoUrl THEN 1 ELSE 0)

\* The step is a commit timer firing.
DialTimerFired ==
  /\ Len(dialEvents') = Len(dialEvents) + 1
  /\ dialEvents'[Len(dialEvents')] = TimeoutEvent

\* The step is a debounce timer firing.
DebounceTimerFired ==
  /\ lastOp'.type = "debounce"
  /\ PendingPreloadTimers' # PendingPreloadTimers

\* C28: at most one commit timer and at most one debounce timer is pending,
\* and a pending one has captured the buffer as it is now, resp. the url
\* selected now (with the player closed); so the timer that fires commits
\* the current buffer, never an earlier one, and preloads the url selected at
\* that moment, never one selected before.
C28_CancelAndReplaceTimers ==
  /\ [](/\ PendingDialCount <= 1
        /\ PendingPreloadCount <= 1
        /\ PendingDialTimers \subseteq {dialBuffer}
        /\ PendingPreloadTimers \subseteq {selectedProgramUrlOf(DisplayState)}
        /\ PendingPreloadTimers # {} => ~playerOpen)
  /\ [][ /\ DialTimerFired =>
             /\ dialBuffer # <<>>
             /\ Len(CommittedDials') = Len(CommittedDials) + 1
             /\ CommittedDials'[Len(CommittedDials')].value = dialBuffer
         /\ DebounceTimerFired =>
             /\ lastOp'.urls = << selectedProgramUrlOf(DisplayState) >>
             /\ ~playerOpen ]_vars

\* 6 then 7 were dialled and one timer fired, committing 67 and no 6; the
\* selection moved off the first row and one debounce timer fired, for the
\* url of the row selected, the only element made.
C28_Witness ==
  /\ DialInputs = <<6, 7, TimeoutEvent>>
  /\ Len(Tunes) = 1 /\ Tunes[1].number = <<6, 7>>
  /\ lastOp.type = "debounce"
  /\ lastOp.urls = << "/art?appId=art" >>
  /\ selectedRow = 1
  /\ elementCount = 1
  /\ PendingDialTimers = {} /\ PendingPreloadTimers = {}

\* ------------------------------------------------------------------------
\* Properties of the manifest-driven buildSchedule
\* ------------------------------------------------------------------------
\* C30: with a program list that is not empty the k-th slot (from 0) of the
\* manifest-driven schedule carries programs[k mod programs.length] and no
\* slot is Off Air filler; with an empty list every slot is Off Air filler
\* of width 1, one per slot of the range.
C30_ManifestCycles ==
  ScheduleCallMade =>
    LET schedule == libCall.manifest
        length == Len(libCall.programs)
    IN IF length > 0
       THEN \A k \in 0..(Len(schedule) - 1) :
              /\ schedule[k + 1].program # NULL
              /\ schedule[k + 1].program = k % length
       ELSE /\ Len(schedule) = SetMax({0, libCall.slotCount})
            /\ \A k \in 0..(Len(schedule) - 1) :
                 schedule[k + 1] = ProgramSlot(k, 1, NULL)

\* Two programs of one and two slots fill six slots: first, second, first,
\* second.
C30_Witness ==
  /\ ScheduleCallMade
  /\ libCall.programs = <<NULL, 2>>
  /\ libCall.slotCount = 6
  /\ Len(libCall.manifest) = 4
  /\ libCall.manifest[3] = ProgramSlot(3, 1, 0)
  /\ libCall.manifest[4] = ProgramSlot(4, 2, 1)

\* ------------------------------------------------------------------------
\* Order of the now messages of one display
\* ------------------------------------------------------------------------
IsNow(text) == text.json /\ text.body.type = "now"

\* The now messages of a queue, in the order of the queue.
NowsOf(queue) == SelectSeq(queue, IsNow)

InSendOrder(queue) ==
  \A i, j \in 1..Len(queue) : i < j => queue[i].id < queue[j].id

\* The now messages that have not reached the remote yet: those the server
\* has not read and those it has written to a socket of the remote.
NowIdsAhead(socks) ==
  UNION { { NowsOf(socks["display"][k].up)[i].id :
              i \in 1..Len(NowsOf(socks["display"][k].up)) } \cup
          { NowsOf(socks["remote"][k].down)[i].id :
              i \in 1..Len(NowsOf(socks["remote"][k].down)) } :
          k \in 1..MaxSockets }

RemoteHandlesNow ==
  /\ netOp'.type = "message"
  /\ netOp'.client = "remote"
  /\ IsNow(Head(sockets["remote"][netOp'.slot].down))

DisplaySendsNow ==
  /\ wire'.lastNowId # wire.lastNowId
  /\ wire'.lastNowId \notin wire'.dropped

\* C29: the send calls of the display are numbered in the order of the
\* operations that make them.  In every queue between the display and a
\* client the now messages lie in that order, a now the server has relayed
\* was sent before every now it has not read yet, a now newly written lies
\* behind every now still on the way, and a now the remote handles was sent
\* before every now still on its way to the remote.
C29_NowOrdering ==
  /\ [](\A k \in 1..MaxSockets :
          /\ InSendOrder(NowsOf(sockets["display"][k].up))
          /\ \A c \in Clients : InSendOrder(NowsOf(sockets[c][k].down))
          /\ \A j \in 1..MaxSockets, c \in Clients :
               \A a \in 1..Len(NowsOf(sockets[c][j].down)) :
               \A b \in 1..Len(NowsOf(sockets["display"][k].up)) :
                 NowsOf(sockets[c][j].down)[a].id
                   < NowsOf(sockets["display"][k].up)[b].id)
  /\ [][DisplaySendsNow =>
          /\ wire'.lastNowId \in NowIdsAhead(sockets')
          /\ \A id \in NowIdsAhead(sockets') : id <= wire'.lastNowId]_vars
  /\ [][RemoteHandlesNow =>
          \A id \in NowIdsAhead(sockets') :
            id > Head(sockets["remote"][netOp'.slot].down).id]_vars

\* Two now messages of the display are on their way to the remote at once,
\* one already relayed and one not yet read by the server, or both in one
\* queue.
C29_Witness ==
  /\ Cardinality(NowIdsAhead(sockets)) >= 2
  /\ \E k \in 1..MaxSockets : Len(NowsOf(sockets["remote"][k].down)) >= 2

\* ------------------------------------------------------------------------
\* Properties of the auto-scroll pacer
\* ------------------------------------------------------------------------
MaxScroll == getScrollBounds(Len(channels)).maxScroll

\* A step of a run without input.
NoInputStep == pacerInputs' = 0

\* C31: with no input the offset stays in [0, maxScroll]; the step that
\* brings it to maxScroll starts a dwell of AUTO_SCROLL_END_HOLD_MS, during
\* which it stays at maxScroll; the only step that lowers it takes it from
\* maxScroll to 0, after the dwell; and from 0 it moves on (upwards) with
\* the first frame after the dwell that follows the reset.
C31_EndOfListHold ==
  /\ [](scrollOffset >= 0 /\ scrollOffset <= MaxScroll)
  /\ [][NoInputStep /\ scrollOffset < MaxScroll /\ scrollOffset' = MaxScroll
          => autoHoldUntilRef' = nowTs + AUTO_SCROLL_END_HOLD_MS]_vars
  /\ [][NoInputStep /\ scrollOffset = MaxScroll /\ scrollOffset' = MaxScroll
          => autoHoldUntilRef' = autoHoldUntilRef]_vars
  /\ [][NoInputStep /\ scrollOffset = MaxScroll
          /\ nowTs < autoHoldUntilRef
          => scrollOffset' = MaxScroll]_vars
  /\ [][NoInputStep /\ scrollOffset' < scrollOffset
          => /\ scrollOffset = MaxScroll
             /\ scrollOffset' = 0
             /\ nowTs >= autoHoldUntilRef]_vars
  /\ [][NoInputStep /\ scrollOffset = 0 /\ lastFrameRef' # lastFrameRef
          /\ lastFrameRef # NULL /\ nowTs >= autoHoldUntilRef
          => scrollOffset' > 0]_vars

\* The list has gone round once: held at the end, reset, held at the top,
\* and the offset moves again.
C31_Witness ==
  /\ pacerInputs = 0
  /\ nowTs > 2 * AUTO_SCROLL_END_HOLD_MS
  /\ scrollOffset > 0
  /\ scrollOffset < MaxScroll
  /\ ~autoResetPendingRef
  /\ autoHoldUntilRef > 0

\* No pause is open and the paused flag has followed.
PacerRunning == ~isPaused /\ nowTs >= pauseUntilRef

\* C32: once the pause is over the offset moves on from where the pause
\* left it: without a further input every change of the offset is an
\* increase, except the return to 0 from the end of the list.
C32_ResumeWithoutJump ==
  [][(/\ pacerInputs' = pacerInputs
      /\ PacerRunning
      /\ ~isPaused'
      /\ scrollOffset' # scrollOffset)
     => \/ scrollOffset' > scrollOffset
        \/ scrollOffset = MaxScroll /\ scrollOffset' = 0]_vars

\* The pause is over, the offset shown during the pause lies inside the
\* list, and the reset the pause interrupted is still pending.
C32_ResetPendingAfterPause ==
  /\ pacerInputs > 0
  /\ PacerRunning
  /\ ~prevPausedRef
  /\ autoResetPendingRef
  /\ nowTs >= autoHoldUntilRef
  /\ scrollOffset > 0
  /\ scrollOffset < MaxScroll

\* A step that handles a directional input: a move of the selection, a
\* channel step, or a tune to a number that names a channel.
DirectionalInput ==
  /\ pacerInputs' = pacerInputs + 1
  /\ \/ lastOp'.type \in {"nav", "channel"}
     \/ /\ lastOp'.type = "tune"
        /\ LET targetNumber == normalizeChannelNumber(lastOp'.number)
           IN \/ ReservedChannel(lastOp'.number, targetNumber) # NoChannel
              \/ TuneTarget(DisplayState, targetNumber) # NoChannel

C33_ArmsFullWindow ==
  [][DirectionalInput => pauseUntilRef' = nowTs + USER_PAUSE_MS]_vars

C33_SnapsAtOnce ==
  [][DirectionalInput
       => scrollOffset' = SnapOffset(selectedRow', Len(channels'))]_vars

C33_NoAdvanceInWindow ==
  [][nowTs < pauseUntilRef' /\ scrollOffset' # scrollOffset
       => scrollOffset' = SnapOffset(selectedRow', Len(channels'))]_vars

\* C33: every directional input opens the full pause window and snaps the
\* offset to the selected row, and while the window is open the offset
\* changes only by such a snap.
C33_InputPausesPacer ==
  C33_ArmsFullWindow /\ C33_SnapsAtOnce /\ C33_NoAdvanceInWindow

\* A tune to the reserved number 67 was handled while the list scrolls, and
\* no pause is open.
C33_TuneWithoutPause ==
  /\ lastOp.type = "tune"
  /\ lastOp.number = <<6, 7>>
  /\ pacerInputs = 1
  /\ pauseUntilRef = 0
  /\ scrollOffset > 0

\* ------------------------------------------------------------------------
\* Properties of the index refresh
\* ------------------------------------------------------------------------
FetchFailed(fetch) ==
  ~(fetch.kind = "json" /\ Len(fetch.data.channels) > 0)

\* The fetch id comes to its end in this step.
Resolves(id) ==
  fetches[id].state = "answered" /\ fetches'[id].state = "none"

\* C34: when a fetch ends with a rejection, a status that is not ok or a
\* snapshot without channels, the index, the selection and the player of
\* the display stay as they are and the poll interval stays armed; the
\* interval is armed in every state, and the handling of an index message
\* starts a fetch at once.
C34_RefreshFailureAbsorbed ==
  /\ [][\A id \in 1..MaxFetches :
          Resolves(id) /\ FetchFailed(fetches[id])
            => /\ UNCHANGED << indexData, channels, currentSlotIndex,
                               selectedRow, selectedCol, playerOpen,
                               playerUrl, playerChannelIndex >>
               /\ pollInterval']_vars
  /\ [](pollInterval)
  /\ [][indexNotices' < indexNotices
          => \E id \in 1..MaxFetches :
               fetches[id].state = "none" /\ fetches'[id].state = "sent"]_vars

\* A fetch has failed while a program of the third row was playing, all is
\* as before, and the next fetch is under way.
C34_Witness ==
  /\ lastOp.type = "index-kept"
  /\ playerOpen
  /\ selectedRow = 2
  /\ indexData.generatedAt = 1
  /\ guideIndex.generatedAt = 2
  /\ guideIndex.channels = <<>>
  /\ \E id \in 1..MaxFetches : fetches[id].state = "sent"

\* C38: the generatedAt of the snapshot the display shows never decreases.
C38_SnapshotsNeverGoBack ==
  [][indexData'.generatedAt >= indexData.generatedAt]_vars

\* The display shows the snapshot of an earlier build than the server's
\* and no fetch is under way.
C38_OlderSnapshotApplied ==
  /\ lastOp.type = "index"
  /\ indexData.generatedAt < guideIndex.generatedAt
  /\ \A id \in 1..MaxFetches : fetches[id].state = "none"
  /\ indexNotices = 0

\* ------------------------------------------------------------------------
\* One socket and one reconnect timer per client
\* ------------------------------------------------------------------------
LiveSockets(c) ==
  { k \in 1..MaxSockets : sockets[c][k].readyState \in {"connecting", "open"} }

\* C35: no client has two sockets that are connecting or open, nor two
\* reconnect timers pending, nor a timer pending next to a live socket; and
\* connect() runs only when every socket of the client is closed.
C35_SingleLiveSocket ==
  /\ [](\A c \in Clients :
          /\ Cardinality(LiveSockets(c)) <= 1
          /\ hook[c].timers <= 1
          /\ hook[c].timers = 1 => LiveSockets(c) = {})
  /\ [][netOp'.type = "timer" /\ hook' # hook
          => LiveSockets(netOp'.client) = {}]_vars

\* A failed connection (error and close in one task) was answered by one
\* timer and one new socket, which is open; the other client is waiting for
\* its one timer with no socket.
C35_Witness ==
  \E c \in Clients, d \in Clients :
    /\ c # d
    /\ netOp.type = "open"
    /\ netOp.client = c
    /\ Cardinality(LiveSockets(c)) = 1
    /\ hook[c].timers = 0
    /\ hook[c].previousDelay > 0
    /\ hook[d].timers = 1
    /\ LiveSockets(d) = {}
    /\ hook[d].retryRef > 1

\* ------------------------------------------------------------------------
\* Channel steps handled before the next render
\* ------------------------------------------------------------------------
RECURSIVE StepsDown(_)
StepsDown(dirs) ==
  IF dirs = <<>> THEN 0
  ELSE (IF Head(dirs) = "down" THEN 1 ELSE -1) + StepsDown(Tail(dirs))

\* C36: the channel messages handled in one step move the selection by one
\* visible channel each, from where the message before left it: k steps
\* down move it k rows down, modulo the number of visible channels.
C36_NoLostChannelSteps ==
  [][lastOp'.type = "channels" /\ Len(channels) > 0
       => selectedRow' =
            (selectedRow + StepsDown(lastOp'.dirs) + MaxBurst * Len(channels))
              % Len(channels)]_vars

\* Two channel(down) messages were handled and the selection is one row
\* below the first.
C36_StepLost ==
  /\ lastOp.type = "channels"
  /\ lastOp.dirs = <<"down", "down">>
  /\ selectedRow = 1
  /\ Len(channels) > 2


\* ------------------------------------------------------------------------
\* Dial digits
\* ------------------------------------------------------------------------
PushedDigits == SelectSeq(dialEvents, LAMBDA e : e \in 0..9)

TunedValues == SelectSeq(remoteSent, LAMBDA m : m.type = "tune")

RECURSIVE TunedDigits(_)
TunedDigits(tunes) ==
  IF tunes = <<>> THEN <<>>
  ELSE Head(tunes).number \o TunedDigits(Tail(tunes))

C37_DigitLost ==
  /\ PushedDigits = << 6, 7 >>
  /\ Len(TunedValues) = 1
  /\ TunedValues[1].number = << 6 >>
  /\ applyDialUpdates(dialBuffer, dialUpdates) = <<>>


\* ------------------------------------------------------------------------
\* Callbacks of evicted entries
\* ------------------------------------------------------------------------
CachedElements == {preloadCache[i].element : i \in 1..Len(preloadCache)}

CallbackFired == lastOp'.type \in {"load", "error"}

\* C39: a load or error callback of an entry that is no longer in the cache
\* changes no entry of the cache; a callback changes at most the entry of
\* its own element and adds or re-inserts none; and an entry whose element
\* has not reported yet has status loading, whatever older elements of the
\* same url report.
C39_LateCallbacksInert ==
  /\ [](\A i \in 1..Len(preloadCache) :
          preloadCache[i].element \in pendingLoads =>
            preloadCache[i].status = "loading")
  /\ [][ CallbackFired =>
           /\ lastOp'.element \in pendingLoads
           /\ lastOp'.element \notin CachedElements =>
                preloadCache' = preloadCache
           /\ Len(preloadCache') = Len(preloadCache)
           /\ \A i \in 1..Len(preloadCache) :
                preloadCache[i].element # lastOp'.element =>
                  preloadCache'[i] = preloadCache[i] ]_vars

\* Element 1 has just loaded after its entry was evicted, while the cache
\* holds a later entry for the same url, with element 3, still loading.
C39_Witness ==
  /\ lastOp.type = "load"
  /\ lastOp.element = 1
  /\ 1 \notin CachedElements
  /\ 3 \in pendingLoads
  /\ \E i \in 1..Len(preloadCache) :
       /\ preloadCache[i].element = 3
       /\ preloadCache[i].url = elementSrc[1]
       /\ preloadCache[i].status = "loading"


\* ------------------------------------------------------------------------
\* Announcement of the active app
\* ------------------------------------------------------------------------
CurrentAppId == IF playerOpen THEN activeAppIdOf(DisplayState) ELSE NoApp

\* C40: while the socket of the display is open, the last app message that
\* went out on it names the active app of the player, null when the player
\* is closed (a display that has sent none counts as having announced
\* null); so a change made while the socket was not open is announced once
\* the socket is open again.
C40_AnnouncementSurvivesDisconnects ==
  displaySocketOpen => lastAppSent = CurrentAppId

\* The player opened an app while the socket was not open and the socket is
\* open again: the ref holds the app and no app message has gone out.
C40_AnnouncementLost ==
  /\ displaySocketOpen
  /\ playerOpen
  /\ CurrentAppId # NoApp
  /\ lastAppMessageRef = CurrentAppId
  /\ lastAppSent = NoApp

\* A missed announcement is not made up for: a step that leaves the active
\* app as it is sends no app message.
C40_NotSentAgain ==
  [][ CurrentAppId' = CurrentAppId =>
        SelectSeq(sent', LAMBDA m : m.type = "app") = <<>> ]_vars

====
